---- MODULE Spec2Model ----
(***************************************************************************)
(* 2fa-now: the server side of the TOTP manager.                           *)
(*                                                                         *)
(*   - the in-memory fixed-window rate limiter (both generations of it),   *)
(*   - at-rest encryption of the stored secret (AES-256-GCM, random IV),   *)
(*   - the secrets route (GET / POST reconcile / DELETE, both generations),*)
(*   - the share routes (issue, revoke, read token, public resolve).       *)
(*                                                                         *)
(* The repository holds two generations of the secrets route and of the    *)
(* limiter: route.ts with lib/rateLimit.ts ("A") and the later route with  *)
(* lib/rate-limit.ts ("B").  The variable build says which one runs.       *)
(***************************************************************************)
EXTENDS Integers, Sequences, FiniteSets, TLC

VARIABLES
    build,      \* "A" | "B": which generation of route + limiter is deployed
    now,        \* Date.now(), in milliseconds
    requests,   \* the limiter's Map<string, {count, resetTime}>
    last,       \* the limiter's latest call: its input, what it saw, its result
    window,     \* per identity: the window the claims count requests in
    secrets,    \* table Secret: rows {id, userId, secret, label, createdAt}
    shares,     \* table SharedSecret: rows {id, token, secretId}
    nextId,     \* the next fresh Secret.id
    nextToken,  \* the next fresh SharedSecret id and token
    req,        \* the request handlers in flight: where each one stands
    out,        \* the response sent last
    served,     \* number of requests received so far
    lastPost,   \* the reconcile that changed the store last, if nothing followed it
    issued,     \* per entry: the tokens share POST returned since its last revoke
    dead,       \* tokens whose mapping a revoke or a delete of the entry removed
    totpCache,  \* TOTPCard's Map<string, {code, timeLeft, timestamp}>
    card,       \* the latest generateTOTP call of a card: its input and its results
    cursor,     \* cards of the list rendered so far in the current render
    renders,    \* renders of the list after the first one
    history,    \* the client's list of entries {id, secret, label, createdAt}
    pendingSecret, \* the parsed input that waits for its label
    inputError, \* the input-error flag
    storage,    \* localStorage["2fa-history"]
    session,    \* the client's session: its user, or none
    net,        \* the client's fetches in flight, with their responses
    removed,    \* secrets the owner removed and did not add again
    importing   \* the import under way: the render its handler was made in

vars == <<build, now, requests, last, window, secrets, shares, nextId, nextToken,
          req, out, served, lastPost, issued, dead,
          totpCache, card, cursor, renders, history, pendingSecret, inputError,
          storage, session, net, removed, importing>>

\* what the server's specifications leave alone
client == <<totpCache, card, cursor, renders, history, pendingSecret, inputError,
            storage, session, net, removed, importing>>

\* what the limiter's own specification leaves alone
server == <<secrets, shares, nextId, nextToken, req, out, served, lastPost, issued, dead>>

----------------------------------------------------------------------------
(* Bounds of the model *)

\* calls one identity makes within one window, in the limiter's specification
MaxCalls == 102
\* the same for the second identity, which only has to be there
MaxOther == 2
\* window lengths the clock runs through in the limiter's specification
MaxTicks == 2
\* createdAt values a client may submit
MaxStamp == 2
\* items in one POST body
MaxBatch == 2
\* Secret rows ever created
MaxIds == 2
\* SharedSecret rows ever created
MaxTokens == 2
\* requests received in one run of a server specification
MaxReqs == 3
\* cards in the client's list
MaxCards == 101
\* renders of the list after the first one
MaxRenders == 3
\* actions of the user in one run of the page
MaxActs == 3
\* the longest plaintext, in characters
MaxText == 3

----------------------------------------------------------------------------
(* Program constants *)

WINDOW_MS == 15 * 60 * 1000
MAX_REQUESTS == 100

IPs == {"ip1", "ip2"}
Builds == {"A", "B"}

----------------------------------------------------------------------------
(* The Map the limiter keeps *)

MapSet(m, k, v) == [x \in (DOMAIN m) \cup {k} |-> IF x = k THEN v ELSE m[x]]
MapDelete(m, ks) == [x \in (DOMAIN m) \ ks |-> m[x]]
EmptyMap == [x \in {} |-> 0]

----------------------------------------------------------------------------
(* lib/rateLimit.ts: rateLimit(ip).  The result carries the Map afterwards. *)

rateLimit_KeepsCount(reqs, ip, t) ==
    IF ip \notin DOMAIN reqs
    THEN [requests |-> MapSet(reqs, ip, [count |-> 1, resetTime |-> t + WINDOW_MS]),
          success |-> TRUE]
    ELSE IF t > reqs[ip].resetTime
    THEN [requests |-> MapSet(reqs, ip, [count |-> reqs[ip].count,
                                         resetTime |-> t + WINDOW_MS]),
          success |-> TRUE]
    ELSE IF reqs[ip].count >= MAX_REQUESTS
    THEN [requests |-> reqs, success |-> FALSE, resetTime |-> reqs[ip].resetTime]
    ELSE [requests |-> MapSet(reqs, ip, [reqs[ip] EXCEPT !.count = @ + 1]),
          success |-> TRUE]

rateLimit_OffByOne(reqs, ip, t) ==
    IF ip \notin DOMAIN reqs \/ t > reqs[ip].resetTime
    THEN [requests |-> MapSet(reqs, ip, [count |-> 1, resetTime |-> t + WINDOW_MS]),
          success |-> TRUE]
    ELSE IF reqs[ip].count > MAX_REQUESTS
    THEN [requests |-> reqs, success |-> FALSE, resetTime |-> reqs[ip].resetTime]
    ELSE [requests |-> MapSet(reqs, ip, [reqs[ip] EXCEPT !.count = @ + 1]),
          success |-> TRUE]

rateLimit(reqs, ip, t) ==
    IF ip \notin DOMAIN reqs \/ t > reqs[ip].resetTime
    THEN [requests |-> MapSet(reqs, ip, [count |-> 1, resetTime |-> t + WINDOW_MS]),
          success |-> TRUE]
    ELSE IF reqs[ip].count >= MAX_REQUESTS
    THEN [requests |-> reqs, success |-> FALSE, resetTime |-> reqs[ip].resetTime]
    ELSE [requests |-> MapSet(reqs, ip, [reqs[ip] EXCEPT !.count = @ + 1]),
          success |-> TRUE]

(* lib/rate-limit.ts: rateLimit(ip), with the sweep of old entries first. *)

CleanUp_Boundary(reqs, t) ==
    MapDelete(reqs, {k \in DOMAIN reqs : reqs[k].resetTime <= t})

CleanUp(reqs, t) == MapDelete(reqs, {k \in DOMAIN reqs : reqs[k].resetTime < t})

rateLimit2(reqs, ip, t) ==
    LET swept == CleanUp(reqs, t) IN
    IF ip \notin DOMAIN swept
    THEN [requests |-> MapSet(swept, ip, [count |-> 1, resetTime |-> t + WINDOW_MS]),
          success |-> TRUE]
    ELSE IF swept[ip].resetTime < t
    THEN [requests |-> MapSet(swept, ip, [count |-> 1, resetTime |-> t + WINDOW_MS]),
          success |-> TRUE]
    ELSE IF swept[ip].count >= MAX_REQUESTS
    THEN [requests |-> swept, success |-> FALSE, resetTime |-> swept[ip].resetTime]
    ELSE [requests |-> MapSet(swept, ip, [swept[ip] EXCEPT !.count = @ + 1]),
          success |-> TRUE]

Limiter_LosesUpdate(b, reqs, ip, t) ==
    LET r == IF b = "A" THEN rateLimit(reqs, ip, t) ELSE rateLimit2(reqs, ip, t) IN
    IF ip \in DOMAIN reqs /\ ip \in DOMAIN r.requests
          /\ r.requests[ip].count = reqs[ip].count + 1 /\ reqs[ip].count % 2 = 0
    THEN [r EXCEPT !.requests = reqs]
    ELSE r

\* the limiter the deployed generation imports
Limiter(b, reqs, ip, t) ==
    IF b = "A" THEN rateLimit(reqs, ip, t) ELSE rateLimit2(reqs, ip, t)

----------------------------------------------------------------------------
(* lib/crypto.ts: AES-256-GCM with a random IV.  A string is modelled by its   *)
(* format and its content: a submitted secret is base32 text, a stored one is  *)
(* "iv:tag:hex".                                                               *)

Text(t) == [fmt |-> "text", text |-> t]

\* encrypt(text) with the IV that randomBytes(16) returned
encrypt(s, iv) == [fmt |-> "iv:tag:hex", iv |-> iv, text |-> s.text]

\* cipher.update(text, "utf8", "hex") throws on a value that is no string
Encryptable(s) == s.fmt = "text"

\* decrypt(encryptedData): three parts, the tag checked under the same key
decrypt(c) == Text(c.text)

----------------------------------------------------------------------------
(* What the clients send *)

Users == {"u1", "u2"}
\* auth() without a session
Anonymous == "anonymous"
Sessions == Users \cup {Anonymous}

\* every request of the server specifications comes from one address
ClientIP == "ip1"

Labels == {"GitHub", "Google"}
Plain == {"JBSWY3DP", "GEZDGNBV"}
Stamps == 1..MaxStamp

\* the label an entry made at c carries: the entries of the model differ in
\* their secret and in the time they were made
LabelAt(c) == IF c % 2 = 1 THEN "GitHub" ELSE "Google"

Items == {[secret |-> Text(p), label |-> LabelAt(c), createdAt |-> c] :
             p \in Plain, c \in Stamps}

SeqsUpTo(S, n) == UNION {[1..k -> S] : k \in 0..n}

\* the bodies of a POST: { secrets: [...] }, or a body whose secrets is no array
Batches == SeqsUpTo(Items, MaxBatch)
Bodies == {[isArray |-> TRUE, secrets |-> b] : b \in Batches}
              \cup {[isArray |-> FALSE]}

\* JSON null where the label is due
Null == "<null>"
\* a number where the secret is due
NoString == [fmt |-> "number", text |-> "42"]

\* the items a request may carry besides those of the page: two sound ones,
\* one with the empty string as its label, one whose secret is no string, one
\* whose label is null
TxItems ==
    {[secret |-> Text("JBSWY3DP"), label |-> "GitHub", createdAt |-> 1],
     [secret |-> Text("GEZDGNBV"), label |-> "Google", createdAt |-> 2],
     [secret |-> Text("JBSWY3DP"), label |-> "", createdAt |-> 1],
     [secret |-> NoString, label |-> "GitHub", createdAt |-> 1],
     [secret |-> Text("GEZDGNBV"), label |-> Null, createdAt |-> 2]}
TxBodies == {[isArray |-> TRUE, secrets |-> b] : b \in SeqsUpTo(TxItems, MaxBatch)}

Ids == 1..MaxIds
\* DELETE /api/secrets without ?id=
NoId == 0

----------------------------------------------------------------------------
(* The tables, as Prisma's calls use them *)

OwnerRows(tbl, u) == {row \in tbl : row.userId = u}

\* prisma.secret.upsert({where: {userId_secret}, update: {label}, create: {...}})
\* on db = [secrets, nextId]
Upsert(db, u, e) ==
    IF \E row \in db.secrets : row.userId = u /\ row.secret = e.secret
    THEN [db EXCEPT !.secrets =
             {IF row.userId = u /\ row.secret = e.secret
              THEN [row EXCEPT !.label = e.label] ELSE row : row \in db.secrets}]
    ELSE [secrets |-> db.secrets \cup
                      {[id |-> db.nextId, userId |-> u, secret |-> e.secret,
                        label |-> e.label, createdAt |-> e.createdAt]},
          nextId |-> db.nextId + 1]

\* Secret.label is String: Prisma rejects an upsert whose label is null
Upsertable(e) == e.label # Null

RECURSIVE ApplyAll(_, _, _)
\* the statements of one transaction, in order
ApplyAll(db, u, es) ==
    IF es = <<>> THEN db
    ELSE ApplyAll(Upsert(db, u, Head(es)), u, Tail(es))

StatementEffect_AutoCommit(db, u, e) == Upsert(db, u, e)

\* what the other connections see of a statement executed inside an open
\* prisma.$transaction: nothing before the commit
StatementEffect(db, u, e) == db

TxAbort_Partial(db, u, done) == ApplyAll(db, u, done)

\* a statement of prisma.$transaction throws: the transaction is rolled back,
\* the statements executed before it leave nothing
TxAbort(db, u, done) == db

Sorted_Unordered(rows) ==
    {s \in [1..Cardinality(rows) -> rows] :
        \A i, j \in 1..Cardinality(rows) : i # j => s[i] # s[j]}

\* findMany({where: {userId}, orderBy: {createdAt: "desc"}}): the orders the
\* database may return (rows of equal createdAt come in any order)
Sorted(rows) ==
    {s \in [1..Cardinality(rows) -> rows] :
        /\ \A i, j \in 1..Cardinality(rows) : i # j => s[i] # s[j]
        /\ \A i, j \in 1..Cardinality(rows) : i < j => s[i].createdAt >= s[j].createdAt}

\* select {id, secret, label, createdAt}, then decrypt each secret
Decrypted(list) ==
    [i \in 1..Len(list) |->
        [id |-> list[i].id, secret |-> decrypt(list[i].secret),
         label |-> list[i].label, createdAt |-> list[i].createdAt]]

Cascade_None(shs, secs) == shs

\* SharedSecret_secretId_fkey ... ON DELETE CASCADE
Cascade(shs, secs) == {sh \in shs : \E row \in secs : row.id = sh.secretId}

ShareInsertable_NoUnique(shs, secs, id) == \E row \in secs : row.id = id

\* the constraints an insert into SharedSecret must meet: the foreign key and
\* the unique index on secretId (the token is fresh, so its index holds)
ShareInsertable(shs, secs, id) ==
    /\ \E row \in secs : row.id = id
    /\ ~ \E sh \in shs : sh.secretId = id

DeleteShares_Nothing(shs, id) == shs

\* prisma.sharedSecret.deleteMany({where: {secretId: id}})
DeleteShares(shs, id) == {sh \in shs : sh.secretId # id}

FindSecret_AnyOwner(secs, id, u) == {row \in secs : row.id = id}

\* findFirst({where: {id, userId}})
FindSecret(secs, id, u) == {row \in secs : row.id = id /\ row.userId = u}

ShareOf_Forgets(shs, id) == {}

\* include: {share: true}
ShareOf(shs, id) == {sh \in shs : sh.secretId = id}

----------------------------------------------------------------------------
(* Code generation of the public share route *)

\* further base32 secrets, for a client that holds many entries
Base32Chars == <<"A", "B", "C", "D", "E", "F", "G", "H", "I", "J", "K">>
ManyTexts == Len(Base32Chars) * Len(Base32Chars)
BulkText(k) ==
    "MFRGGZ" \o Base32Chars[((k - 1) \div Len(Base32Chars)) + 1]
             \o Base32Chars[((k - 1) % Len(Base32Chars)) + 1]

Base32Texts == Plain \cup {BulkText(k) : k \in 1..ManyTexts}

\* OTPAuth.Secret.fromBase32 accepts base32 text only
IsBase32(s) == s.fmt = "text" /\ s.text \in Base32Texts

PERIOD_MS == 30 * 1000
DIGITS == 6

\* the key bytes fromBase32 decodes, as a number
KeyNumber(text) ==
    IF text = "JBSWY3DP" THEN 1
    ELSE IF text = "GEZDGNBV" THEN 2
    ELSE 2 + (CHOOSE k \in 1..ManyTexts : BulkText(k) = text)

\* totp.generate(): the HMAC of the counter under the key, truncated to six
\* digits; it depends on key and counter and does not carry the key
HOTP(text, counter) == (KeyNumber(text) * 7919 + counter * 104729 + 1) % (10 ^ DIGITS)

Remaining_Floor(t) == (PERIOD_MS - (t % PERIOD_MS)) \div 1000

\* Math.ceil(totp.remaining() / 1000)
Remaining(t) == (PERIOD_MS - (t % PERIOD_MS) + 999) \div 1000

\* generateTOTP(secret): null when the secret does not decode
generateTOTP(s, t) ==
    IF IsBase32(s)
    THEN [ok |-> TRUE, otp |-> HOTP(s.text, t \div PERIOD_MS),
          timeLeft |-> Remaining(t)]
    ELSE [ok |-> FALSE]

ResolveBody_Spreads(sel, result) ==
    IF result.ok
    THEN [label |-> sel.label, otp |-> result.otp, timeLeft |-> result.timeLeft,
          secret |-> sel.secret]
    ELSE [error |-> "Invalid secret", secret |-> sel.secret]

\* the body the public route answers with, from the selected columns
\* {secret, label} and the result of generateTOTP
ResolveBody(sel, result) ==
    IF result.ok
    THEN [label |-> sel.label, otp |-> result.otp, timeLeft |-> result.timeLeft]
    ELSE [error |-> "Invalid secret"]

ResolveStatus(result) == IF result.ok THEN 200 ELSE 500

----------------------------------------------------------------------------
(* Request handlers in flight *)

\* two handlers run at a time; a request takes the first free one
Reqs == {1, 2}
Idle == [op |-> "idle", pc |-> "idle"]
\* the handler threw before its first database call
Thrown == [op |-> "idle", pc |-> "throw"]
FirstFree(r) == req[r] = Idle /\ \A q \in Reqs : q < r => req[q] # Idle
NoOut == [op |-> "none"]
NoPost == [user |-> Anonymous]

NoCard == [secret |-> "none"]
NoPending == [secret |-> "none"]
NoStorage == [saved |-> FALSE]
NoImport == [phase |-> "none"]

\* the page before it is mounted: nothing rendered, an empty list, no session
ClientInit ==
    /\ totpCache = <<>>
    /\ card = NoCard
    /\ cursor = 0
    /\ renders = 0
    /\ history = <<>>
    /\ pendingSecret = NoPending
    /\ inputError = FALSE
    /\ storage = NoStorage
    /\ session = "anonymous"
    /\ net = <<>>
    /\ removed = {}
    /\ importing = NoImport

\* no request is in flight, nothing was answered, the tables are empty
ServerInit ==
    /\ secrets = {}
    /\ shares = {}
    /\ nextId = 1
    /\ nextToken = 1
    /\ req = [r \in Reqs |-> Idle]
    /\ out = NoOut
    /\ served = 0
    /\ lastPost = NoPost
    /\ issued = [i \in Ids |-> {}]
    /\ dead = {}

----------------------------------------------------------------------------
(* The limiter on its own: calls by two identities while the clock advances *)

NoCall == [ip |-> "none"]

\* the identity's record is there and its reset time has passed
Expired(reqs, ip, t) == ip \in DOMAIN reqs /\ t > reqs[ip].resetTime

\* a request opens a window when the identity has none or its window is over
Opens(ip) == IF ip \in DOMAIN window THEN now > window[ip].resetAt ELSE TRUE

InitRL ==
    /\ build \in Builds
    /\ now = 0
    /\ requests = EmptyMap
    /\ last = NoCall
    /\ window = EmptyMap
    /\ ClientInit
    /\ ServerInit

Budget(ip) == IF ip = "ip1" THEN MaxCalls ELSE MaxOther

Call(ip) ==
    /\ IF Opens(ip) THEN TRUE ELSE window[ip].n < Budget(ip)
    /\ LET r == Limiter(build, requests, ip, now) IN
       /\ requests' = r.requests
       /\ last' = [ip |-> ip, result |-> [f \in DOMAIN r \ {"requests"} |-> r[f]],
                   expired |-> Expired(requests, ip, now),
                   prev |-> IF ip \in DOMAIN requests THEN requests[ip].count ELSE 0]
    /\ window' = IF Opens(ip)
                 THEN MapSet(window, ip, [n |-> 1, resetAt |-> now + WINDOW_MS])
                 ELSE MapSet(window, ip, [window[ip] EXCEPT !.n = @ + 1])
    /\ UNCHANGED <<build, client, now, server>>

\* the instants the clock visits: in each window length its first millisecond
\* and its last one, so that a record is met on its reset time and just after it
Times == {0} \cup {k * WINDOW_MS : k \in 1..MaxTicks}
             \cup {k * WINDOW_MS + 1 : k \in 1..MaxTicks}

\* the clock advances by one millisecond or by a whole window length; last holds
\* the call made at the current instant
Tick(d) ==
    /\ now + d \in Times
    /\ now' = now + d
    /\ last' = NoCall
    /\ UNCHANGED <<build, client, requests, window, server>>

NextRL ==
    \/ \E ip \in IPs : Call(ip)
    \/ \E d \in {1, WINDOW_MS} : Tick(d)

SpecRL == InitRL /\ [][NextRL]_vars

\* a request of ip beyond its budget, while the record of another identity
\* is past its reset time; window counts the requests up to the budget only
Later(ip) ==
    /\ ~Opens(ip) /\ window[ip].n >= Budget(ip)
    /\ \E other \in DOMAIN requests \ {ip} : Expired(requests, other, now)
    /\ LET r == Limiter(build, requests, ip, now) IN
       /\ requests' = r.requests
       /\ last' = [ip |-> ip, result |-> [f \in DOMAIN r \ {"requests"} |-> r[f]],
                   expired |-> Expired(requests, ip, now),
                   prev |-> IF ip \in DOMAIN requests THEN requests[ip].count ELSE 0]
    /\ UNCHANGED <<build, client, now, window, server>>

NextRLFair ==
    \/ NextRL
    \/ Later("ip2")

\* the limiter has no timer: it runs when a request arrives.  Time passes, and
\* the second identity keeps sending; the first one may fall silent for good.
SpecRLFair ==
    /\ InitRL /\ [][NextRLFair]_vars
    /\ WF_vars(\E d \in {1, WINDOW_MS} : Tick(d))
    /\ WF_vars(Call("ip2"))
    /\ WF_vars(Later("ip2"))

----------------------------------------------------------------------------
(* app/api/secrets/route.ts: GET, POST and DELETE.  A handler is one action up *)
(* to its first database call (limiter, auth(), parsing, encryption), then one *)
(* action per database call; it answers in the action of its last call.        *)

limiterVars == <<last, window>>
tables == <<secrets, shares, nextId, nextToken>>
ghosts == <<lastPost, issued, dead>>

Answer(r, resp) ==
    /\ out' = resp
    /\ req' = [req EXCEPT ![r] = Idle]

TooMany(op, lim) ==
    [op |-> op, status |-> 429, gated |-> TRUE, reset |-> lim.resetTime]
Status(op, code, gated) == [op |-> op, status |-> code, gated |-> gated]

\* the states the limiter's Map is in when a run of the server starts: empty,
\* or one request short of the quota
LimiterStarts ==
    {EmptyMap,
     MapSet(EmptyMap, ClientIP, [count |-> MAX_REQUESTS - 1, resetTime |-> WINDOW_MS])}

\* Secret rows the handlers in flight may still create
Reserved ==
    LET RECURSIVE Sum(_)
        Sum(S) == IF S = {} THEN 0
                  ELSE LET r == CHOOSE x \in S : TRUE
                       IN (IF req[r].op = "POST" /\ req[r].pc = "tx"
                           THEN Len(req[r].todo) + Len(req[r].done) ELSE 0)
                          + Sum(S \ {r})
    IN (nextId - 1) + Sum(Reqs)

\* randomBytes(16) for the items of one body.  Sixteen random bytes do not repeat:
\* each IV is a value that no ciphertext stored or in flight carries, here the
\* least such numbers.
UsedIVs ==
    {row.secret.iv : row \in secrets}
        \cup UNION {{req[r].todo[i].secret.iv : i \in 1..Len(req[r].todo)}
                        \cup {req[r].done[i].secret.iv : i \in 1..Len(req[r].done)} :
                    r \in {q \in Reqs : req[q].op = "POST" /\ req[q].pc = "tx"}}
RECURSIVE FreshIVs(_, _)
FreshIVs(n, used) ==
    IF n = 0 THEN <<>>
    ELSE LET iv == CHOOSE k \in 1..(Cardinality(used) + 1) : k \notin used
         IN <<iv>> \o FreshIVs(n - 1, used \cup {iv})

\* a reconcile of u has executed some of its statements and not all of them
MidTx(u) ==
    \E r \in Reqs : /\ req[r].op = "POST" /\ req[r].pc = "tx" /\ req[r].user = u
                    /\ req[r].done # <<>> /\ req[r].todo # <<>>

\* the answer of GET and POST: the owner's list
Listing(op, u, list) ==
    [op |-> op, status |-> 200, gated |-> TRUE, user |-> u, body |-> Decrypted(list),
     midTx |-> MidTx(u)]

Enter_NoAuth(r, op, u, go) ==
    /\ FirstFree(r)
    /\ served < MaxReqs
    /\ served' = served + 1
    /\ LET lim == Limiter(build, requests, ClientIP, now) IN
       /\ requests' = lim.requests
       /\ IF ~lim.success THEN Answer(r, TooMany(op, lim) @@ [user |-> u])
          ELSE IF go.pc = "idle" THEN Answer(r, Status(op, 400, TRUE) @@ [user |-> u])
          ELSE IF go.pc = "throw"
          THEN Answer(r, Status(op, 500, TRUE) @@ [user |-> u, thrown |-> "encrypt"])
          ELSE req' = [req EXCEPT ![r] = go] /\ out' = out

\* the gate every handler of the secrets route opens with (lines 8-29): the
\* limiter, then auth(); go is the handler's state when both let it pass
Enter(r, op, u, go) ==
    /\ FirstFree(r)
    /\ served < MaxReqs
    /\ served' = served + 1
    /\ LET lim == Limiter(build, requests, ClientIP, now) IN
       /\ requests' = lim.requests
       /\ IF ~lim.success THEN Answer(r, TooMany(op, lim) @@ [user |-> u])
          ELSE IF u = Anonymous THEN Answer(r, Status(op, 401, TRUE) @@ [user |-> u])
          ELSE IF go.pc = "idle" THEN Answer(r, Status(op, 400, TRUE) @@ [user |-> u])
          ELSE IF go.pc = "throw"
          THEN Answer(r, Status(op, 500, TRUE) @@ [user |-> u, thrown |-> "encrypt"])
          ELSE req' = [req EXCEPT ![r] = go] /\ out' = out

GetEnter(r, u) ==
    /\ Enter(r, "GET", u, [op |-> "GET", pc |-> "find", user |-> u, gated |-> TRUE])
    /\ UNCHANGED <<build, client, now, limiterVars, tables, ghosts>>

\* findMany, decrypt, respond
GetFind(r) ==
    /\ req[r].op = "GET" /\ req[r].pc = "find"
    /\ \E list \in Sorted(OwnerRows(secrets, req[r].user)) :
          Answer(r, Listing("GET", req[r].user, list))
    /\ UNCHANGED <<build, client, now, requests, limiterVars, tables, served, ghosts>>

\* the body is parsed and every item encrypted before the transaction starts
PostEnter(r, u, body) ==
    /\ body.isArray => Reserved + Len(body.secrets) <= MaxIds
    /\ Enter(r, "POST", u,
             IF ~body.isArray THEN Idle
             ELSE IF \E i \in 1..Len(body.secrets) : ~Encryptable(body.secrets[i].secret)
             THEN Thrown
             ELSE [op |-> "POST", pc |-> "tx", user |-> u, gated |-> TRUE,
                   batch |-> body.secrets,
                   repeat |-> (lastPost = [user |-> u, batch |-> body.secrets]),
                   todo |-> [i \in 1..Len(body.secrets) |->
                               [secret |-> encrypt(body.secrets[i].secret,
                                                   FreshIVs(Len(body.secrets), UsedIVs)[i]),
                                label |-> body.secrets[i].label,
                                createdAt |-> body.secrets[i].createdAt]],
                   done |-> <<>>])
    /\ UNCHANGED <<build, client, now, limiterVars, tables, ghosts>>

\* one upsert of the batch, executed inside the transaction
PostUpsert(r) ==
    /\ req[r].op = "POST" /\ req[r].pc = "tx" /\ req[r].todo # <<>>
    /\ Upsertable(Head(req[r].todo))
    /\ LET db == StatementEffect([secrets |-> secrets, nextId |-> nextId],
                                 req[r].user, Head(req[r].todo)) IN
       /\ secrets' = db.secrets
       /\ nextId' = db.nextId
    /\ req' = [req EXCEPT ![r].todo = Tail(@), ![r].done = Append(@, Head(req[r].todo))]
    /\ UNCHANGED <<build, client, now, requests, limiterVars, shares, nextToken, out, served,
                   ghosts>>

\* an upsert of the batch throws inside the transaction: rollback, and the
\* handler ends with the error (500); after counts the upserts that had run
PostFail(r) ==
    /\ req[r].op = "POST" /\ req[r].pc = "tx" /\ req[r].todo # <<>>
    /\ ~Upsertable(Head(req[r].todo))
    /\ LET db == TxAbort([secrets |-> secrets, nextId |-> nextId],
                         req[r].user, req[r].done) IN
       /\ secrets' = db.secrets
       /\ nextId' = db.nextId
    /\ Answer(r, Status("POST", 500, TRUE)
                     @@ [user |-> req[r].user, thrown |-> "upsert",
                         after |-> Len(req[r].done)])
    /\ UNCHANGED <<build, client, now, requests, limiterVars, shares, nextToken, served,
                   ghosts>>

\* the transaction commits: its statements take effect together
PostCommit(r) ==
    /\ req[r].op = "POST" /\ req[r].pc = "tx" /\ req[r].todo = <<>>
    /\ LET db == ApplyAll([secrets |-> secrets, nextId |-> nextId],
                          req[r].user, req[r].done) IN
       /\ secrets' = db.secrets
       /\ nextId' = db.nextId
    /\ lastPost' = [user |-> req[r].user, batch |-> req[r].batch]
    /\ req' = [req EXCEPT ![r] = [op |-> "POST", pc |-> "find", user |-> req[r].user,
                                  gated |-> TRUE, batch |-> req[r].batch]]
    /\ UNCHANGED <<build, client, now, requests, limiterVars, shares, nextToken, out, served,
                   issued, dead>>

\* "Return all secrets": findMany, decrypt, respond
PostFind(r) ==
    /\ req[r].op = "POST" /\ req[r].pc = "find"
    /\ \E list \in Sorted(OwnerRows(secrets, req[r].user)) :
          Answer(r, Listing("POST", req[r].user, list))
    /\ UNCHANGED <<build, client, now, requests, limiterVars, tables, served, ghosts>>

\* the older route deletes with one deleteMany, the later one looks the row up first
DeleteEnter(r, u, id) ==
    /\ Enter(r, "DELETE", u,
             IF id = NoId THEN Idle
             ELSE [op |-> "DELETE", pc |-> IF build = "A" THEN "deleteMany" ELSE "findFirst",
                   user |-> u, gated |-> TRUE, id |-> id])
    /\ UNCHANGED <<build, client, now, limiterVars, tables, ghosts>>

\* the rows gone from Secret take their SharedSecret rows along
Remove(gone) ==
    /\ secrets' = secrets \ gone
    /\ shares' = Cascade(shares, secrets')
    /\ dead' = dead \cup {[token |-> sh.token, by |-> "delete"] :
                            sh \in {x \in shares : \E row \in gone : row.id = x.secretId}}
    /\ issued' = [i \in Ids |-> IF \E row \in gone : row.id = i THEN {} ELSE issued[i]]
    /\ lastPost' = IF gone = {} THEN lastPost ELSE NoPost

\* route.ts: deleteMany({where: {id, userId}})
DeleteMany(r) ==
    /\ req[r].op = "DELETE" /\ req[r].pc = "deleteMany"
    /\ Remove(FindSecret(secrets, req[r].id, req[r].user))
    /\ Answer(r, Status("DELETE", 200, TRUE))
    /\ UNCHANGED <<build, client, now, requests, limiterVars, nextId, nextToken, served>>

\* later route: findFirst({where: {id, userId}}), 404 when there is none
DeleteFind(r) ==
    /\ req[r].op = "DELETE" /\ req[r].pc = "findFirst"
    /\ IF FindSecret(secrets, req[r].id, req[r].user) = {}
       THEN Answer(r, Status("DELETE", 404, TRUE))
       ELSE req' = [req EXCEPT ![r].pc = "delete"] /\ out' = out
    /\ UNCHANGED <<build, client, now, requests, limiterVars, tables, served, ghosts>>

\* later route: delete({where: {id}}), which throws when the row is gone
DeleteRow(r) ==
    /\ req[r].op = "DELETE" /\ req[r].pc = "delete"
    /\ LET gone == {row \in secrets : row.id = req[r].id} IN
       /\ Remove(gone)
       /\ Answer(r, Status("DELETE", IF gone = {} THEN 500 ELSE 200, TRUE))
    /\ UNCHANGED <<build, client, now, requests, limiterVars, nextId, nextToken, served>>

InitSync ==
    /\ build \in Builds
    /\ now = 0
    /\ requests \in LimiterStarts
    /\ last = NoCall
    /\ window = EmptyMap
    /\ ClientInit
    /\ ServerInit

SecretsRoute(r) ==
    \/ \E u \in Sessions : GetEnter(r, u)
    \/ GetFind(r)
    \/ \E u \in Sessions, body \in Bodies : PostEnter(r, u, body)
    \/ PostUpsert(r)
    \/ PostCommit(r)
    \/ PostFind(r)
    \/ \E u \in Sessions, id \in Ids \cup {NoId} : DeleteEnter(r, u, id)
    \/ DeleteMany(r)
    \/ DeleteFind(r)
    \/ DeleteRow(r)

NextSync == \E r \in Reqs : SecretsRoute(r)

SpecSync == InitSync /\ [][NextSync]_vars

\* reconciles of one owner, of every kind of item, two at a time
NextTx ==
    \E r \in Reqs :
        \/ \E body \in TxBodies : PostEnter(r, "u1", body)
        \/ PostUpsert(r)
        \/ PostFail(r)
        \/ PostCommit(r)
        \/ PostFind(r)

SpecTx == InitSync /\ [][NextTx]_vars

----------------------------------------------------------------------------
(* app/api/secrets/[id]/share/route.ts: POST (issue), DELETE (revoke), GET     *)
(* (read the token), and app/api/share/[token]/route.ts: GET (resolve).        *)
(* None of them calls the limiter.                                             *)

Tokens == 1..MaxTokens
\* { token: null }
NoToken == 0

\* SharedSecret rows the handlers in flight may still create
ReservedTokens ==
    (nextToken - 1) + Cardinality({r \in Reqs : req[r].op = "issue"})

\* auth(), then params (lines 177-183)
ShareEnter(r, op, u, id) ==
    /\ FirstFree(r)
    /\ served < MaxReqs
    /\ op = "issue" => ReservedTokens < MaxTokens
    /\ served' = served + 1
    /\ IF u = Anonymous THEN Answer(r, Status(op, 401, FALSE) @@ [user |-> u])
       ELSE /\ req' = [req EXCEPT ![r] = [op |-> op, pc |-> "findFirst", user |-> u,
                                         gated |-> FALSE, id |-> id]]
            /\ out' = out
    /\ UNCHANGED <<build, client, now, requests, limiterVars, tables, ghosts>>

\* the tokens mapped to an entry of u, read off the table
LiveTokens(id, u) ==
    {sh.token : sh \in {x \in shares : x.secretId = id /\
                           \E row \in secrets : row.id = id /\ row.userId = u}}

IssueAnswer(code, token, via, live) ==
    [op |-> "issue", status |-> code, gated |-> FALSE, token |-> token, via |-> via,
     live |-> live]

\* findFirst({where: {id, userId}, include: {share: true}}); an existing token
\* is returned as it is
IssueFind(r) ==
    /\ req[r].op = "issue" /\ req[r].pc = "findFirst"
    /\ LET id == req[r].id
           live == LiveTokens(id, req[r].user) IN
       IF FindSecret(secrets, id, req[r].user) = {}
       THEN Answer(r, IssueAnswer(404, NoToken, "none", live)) /\ issued' = issued
       ELSE IF ShareOf(shares, id) # {}
       THEN \E sh \in ShareOf(shares, id) :
               /\ Answer(r, IssueAnswer(200, sh.token, "existing", live))
               /\ issued' = [issued EXCEPT ![id] = @ \cup {sh.token}]
       ELSE /\ req' = [req EXCEPT ![r] = [@ EXCEPT !.pc = "create"] @@ [live |-> live]]
            /\ out' = out
            /\ issued' = issued
    /\ UNCHANGED <<build, client, now, requests, limiterVars, tables, served, lastPost, dead>>

\* sharedSecret.create({data: {secretId}}): the token is the column's default;
\* the insert throws when a constraint fails
IssueCreate(r) ==
    /\ req[r].op = "issue" /\ req[r].pc = "create"
    /\ LET id == req[r].id IN
       IF ShareInsertable(shares, secrets, id)
       THEN /\ shares' = shares \cup
                         {[id |-> nextToken, token |-> nextToken, secretId |-> id]}
            /\ nextToken' = nextToken + 1
            /\ issued' = [issued EXCEPT ![id] = @ \cup {nextToken}]
            /\ Answer(r, IssueAnswer(200, nextToken, "created", req[r].live))
       ELSE /\ UNCHANGED <<shares, nextToken, issued>>
            /\ Answer(r, IssueAnswer(500, NoToken, "none", req[r].live))
    /\ UNCHANGED <<build, client, now, requests, limiterVars, secrets, nextId, served,
                   lastPost, dead>>

RevokeFind_AnyOwner(r) ==
    /\ req[r].op = "revoke" /\ req[r].pc = "findFirst"
    /\ IF {row \in secrets : row.id = req[r].id} = {}
       THEN Answer(r, Status("revoke", 404, FALSE))
       ELSE req' = [req EXCEPT ![r].pc = "deleteMany"] /\ out' = out
    /\ UNCHANGED <<build, client, now, requests, limiterVars, tables, served, ghosts>>

\* findFirst({where: {id, userId}})
RevokeFind(r) ==
    /\ req[r].op = "revoke" /\ req[r].pc = "findFirst"
    /\ IF FindSecret(secrets, req[r].id, req[r].user) = {}
       THEN Answer(r, Status("revoke", 404, FALSE))
       ELSE req' = [req EXCEPT ![r].pc = "deleteMany"] /\ out' = out
    /\ UNCHANGED <<build, client, now, requests, limiterVars, tables, served, ghosts>>

\* sharedSecret.deleteMany({where: {secretId: id}})
RevokeDelete(r) ==
    /\ req[r].op = "revoke" /\ req[r].pc = "deleteMany"
    /\ shares' = DeleteShares(shares, req[r].id)
    /\ dead' = dead \cup {[token |-> sh.token, by |-> "revoke"] :
                            sh \in {x \in shares : x.secretId = req[r].id}}
    /\ issued' = [issued EXCEPT ![req[r].id] = {}]
    /\ Answer(r, Status("revoke", 200, FALSE))
    /\ UNCHANGED <<build, client, now, requests, limiterVars, secrets, nextId, nextToken,
                   served, lastPost>>

\* findFirst with the share included; { token: null } when there is none
ReadFind(r) ==
    /\ req[r].op = "read" /\ req[r].pc = "findFirst"
    /\ IF FindSecret(secrets, req[r].id, req[r].user) = {}
       THEN Answer(r, Status("read", 404, FALSE))
       ELSE IF ShareOf(shares, req[r].id) = {}
       THEN Answer(r, [op |-> "read", status |-> 200, gated |-> FALSE,
                       token |-> NoToken])
       ELSE \E sh \in ShareOf(shares, req[r].id) :
               Answer(r, [op |-> "read", status |-> 200, gated |-> FALSE,
                          token |-> sh.token])
    /\ UNCHANGED <<build, client, now, requests, limiterVars, tables, served, ghosts>>

ResolveAnswer(code, token, fields) ==
    [op |-> "resolve", status |-> code, gated |-> FALSE, token |-> token,
     after |-> {d.by : d \in {x \in dead : x.token = token}}] @@ fields

\* the public route: findUnique({where: {token}, include: {secret}}), then
\* generateTOTP on the stored secret column; no session, no limiter
Resolve(token) ==
    /\ served < MaxReqs
    /\ served' = served + 1
    /\ LET found == {sh \in shares : sh.token = token} IN
       IF found = {}
       THEN out' = ResolveAnswer(404, token, [error |-> "Not found"])
       ELSE \E sh \in found :
              LET rows == {row \in secrets : row.id = sh.secretId} IN
              IF rows = {}
              THEN out' = ResolveAnswer(500, token, [error |-> "TypeError"])
              ELSE \E row \in rows :
                     LET sel == [secret |-> row.secret, label |-> row.label]
                         result == generateTOTP(sel.secret, now) IN
                     out' = ResolveAnswer(ResolveStatus(result), token,
                                          ResolveBody(sel, result))
    /\ UNCHANGED <<build, client, now, requests, limiterVars, tables, req, ghosts>>

\* the store after u1's first reconcile of two secrets
SeedItems ==
    <<[secret |-> encrypt(Text("JBSWY3DP"), 1), label |-> "GitHub", createdAt |-> 1],
      [secret |-> encrypt(Text("GEZDGNBV"), 2), label |-> "Google", createdAt |-> 2]>>
Seed == ApplyAll([secrets |-> {}, nextId |-> 1], "u1", SeedItems)

InitShare ==
    /\ build \in Builds
    /\ now = 0
    /\ requests = EmptyMap
    /\ last = NoCall
    /\ window = EmptyMap
    /\ ClientInit
    /\ secrets = Seed.secrets
    /\ nextId = Seed.nextId
    /\ shares = {}
    /\ nextToken = 1
    /\ req = [r \in Reqs |-> Idle]
    /\ out = NoOut
    /\ served = 0
    /\ lastPost = NoPost
    /\ issued = [i \in Ids |-> {}]
    /\ dead = {}

ShareRoute(r) ==
    \/ \E op \in {"issue", "revoke", "read"}, u \in Sessions, id \in Ids :
          ShareEnter(r, op, u, id)
    \/ IssueFind(r)
    \/ IssueCreate(r)
    \/ RevokeFind(r)
    \/ RevokeDelete(r)
    \/ ReadFind(r)

DeleteRoute(r) ==
    \/ \E u \in Sessions, id \in Ids \cup {NoId} : DeleteEnter(r, u, id)
    \/ DeleteMany(r)
    \/ DeleteFind(r)
    \/ DeleteRow(r)

NextShare ==
    \/ \E r \in Reqs : ShareRoute(r) \/ DeleteRoute(r)
    \/ \E token \in Tokens : Resolve(token)

SpecShare == InitShare /\ [][NextShare]_vars

----------------------------------------------------------------------------
(* All owner-scoped routes together.  The store holds the first entry of u1   *)
(* and its share token; the limiter is fresh or one request short of the quota. *)

SeedOne == ApplyAll([secrets |-> {}, nextId |-> 1], "u1", <<SeedItems[1]>>)

InitApi ==
    /\ build \in Builds
    /\ now = 0
    /\ requests \in LimiterStarts
    /\ last = NoCall
    /\ window = EmptyMap
    /\ ClientInit
    /\ secrets = SeedOne.secrets
    /\ nextId = SeedOne.nextId
    /\ shares = {[id |-> 1, token |-> 1, secretId |-> 1]}
    /\ nextToken = 2
    /\ req = [r \in Reqs |-> Idle]
    /\ out = NoOut
    /\ served = 0
    /\ lastPost = NoPost
    /\ issued = [i \in Ids |-> IF i = 1 THEN {1} ELSE {}]
    /\ dead = {}

NextApi == \E r \in Reqs : SecretsRoute(r) \/ ShareRoute(r)

SpecApi == InitApi /\ [][NextApi]_vars

----------------------------------------------------------------------------
(* The client's code generators: generateTOTP of page.tsx and of useTOTP.ts,  *)
(* and the one of TOTPCard.tsx, which keeps a cache.  A code is a six-digit    *)
(* string, modelled by its number; EmptyCode is the empty string.              *)

EmptyCode == 0 - 1
InvalidSecret == [error |-> "Invalid secret"]

\* the strings a client may hold as a secret besides base32 text: the empty
\* string, blanks, and text outside the base32 alphabet
Blank == {"", "   "}
NotBase32 == {"1890-:"}

\* secret.trim()
Trim(text) == IF text \in Blank THEN "" ELSE text

\* page.tsx, hooks/useTOTP.ts: generateTOTP(secret) at Date.now() = t
generateTOTP_page(s, t) ==
    IF Trim(s.text) = "" THEN [code |-> EmptyCode, timeLeft |-> 30]
    ELSE IF IsBase32(s)
    THEN [code |-> HOTP(s.text, t \div PERIOD_MS), timeLeft |-> Remaining(t)]
    ELSE InvalidSecret

CACHE_SIZE == 100
CACHE_HIT_MS == 1000
CACHE_KEEP_MS == 60000

\* the key of the cache: `${secret}-${timeWindow}`
cacheKey(s, t) == <<s.text, t \div PERIOD_MS>>

\* "Clean old cache entries"
CleanCache(cache, t) ==
    IF Cardinality(DOMAIN cache) > CACHE_SIZE
    THEN MapDelete(cache, {k \in DOMAIN cache : cache[k].timestamp < t - CACHE_KEEP_MS})
    ELSE cache

\* TOTPCard.tsx: generateTOTP(secret) at Date.now() = t; the result carries the
\* cache afterwards
generateTOTP_card(cache, s, t) ==
    IF Trim(s.text) = ""
    THEN [cache |-> cache, result |-> [code |-> EmptyCode, timeLeft |-> 30]]
    ELSE LET key == cacheKey(s, t) IN
         IF key \in DOMAIN cache /\ (t - cache[key].timestamp) < CACHE_HIT_MS
         THEN [cache |-> cache, result |-> cache[key]]
         ELSE IF ~IsBase32(s)
         THEN [cache |-> cache, result |-> InvalidSecret]
         ELSE LET result == [code |-> HOTP(s.text, t \div PERIOD_MS),
                             timeLeft |-> Remaining(t), timestamp |-> t]
              IN [cache |-> CleanCache(MapSet(cache, key, result), t),
                  result |-> result]

\* what the server and the rest of the client do not touch while cards render
page == <<pendingSecret, inputError, storage, session, net, removed, importing>>

Entry(id, text, label, at) ==
    [id |-> id, secret |-> Text(text), label |-> label, createdAt |-> at]

\* the lists a render may meet: many entries with valid secrets, or a few
\* entries as a saved list or an import can hold them, among them a blank
\* secret and one that is not base32
ManyCards == [i \in 1..MaxCards |-> Entry(i, BulkText(i), "GitHub", 1)]
FewCards ==
    <<Entry(1, "JBSWY3DP", "GitHub", 1), Entry(2, "", "Google", 2),
      Entry(3, "   ", "GitHub", 3), Entry(4, "1890-:", "Google", 4)>>

StartTimes == {0, 500}
RenderDelays == {500, 900, CACHE_HIT_MS, PERIOD_MS, CACHE_KEEP_MS + 1000}

InitCode ==
    /\ build = "A"
    /\ now \in StartTimes
    /\ requests = EmptyMap
    /\ last = NoCall
    /\ window = EmptyMap
    /\ ServerInit
    /\ totpCache = <<>>
    /\ card = NoCard
    /\ cursor = 0
    /\ renders = 0
    /\ history \in {ManyCards, FewCards}
    /\ pendingSecret = NoPending
    /\ inputError = FALSE
    /\ storage = NoStorage
    /\ session = "anonymous"
    /\ net = <<>>
    /\ removed = {}
    /\ importing = NoImport

\* TOTPCard renders the next entry of the list: generateTOTP(entry.secret)
RenderCard ==
    /\ cursor < Len(history)
    /\ LET s == history[cursor + 1].secret
           g == generateTOTP_card(totpCache, s, now) IN
       /\ totpCache' = g.cache
       /\ card' = [secret |-> s, at |-> now, result |-> g.result,
                   plain |-> generateTOTP_page(s, now)]
    /\ cursor' = cursor + 1
    /\ UNCHANGED <<build, now, requests, limiterVars, server, renders, history, page>>

\* the list renders again: on the 1-second tick of useCurrentTime or because
\* some state of the page changed
Rerender(d) ==
    /\ cursor = Len(history)
    /\ renders < MaxRenders
    /\ renders' = renders + 1
    /\ now' = now + d
    /\ cursor' = 0
    /\ UNCHANGED <<build, requests, limiterVars, server, totpCache, card, history, page>>

NextCode ==
    \/ RenderCard
    \/ \E d \in RenderDelays : Rerender(d)

SpecCode == InitCode /\ [][NextCode]_vars

----------------------------------------------------------------------------
(* One card on the 1-second tick.  The card of hooks/useTOTP.ts (build "A")  *)
(* keeps the result in useMemo(..., [secret]); the card of the later page    *)
(* (build "B") in useMemo(..., [entry.secret, periodKey]).  card is the      *)
(* useMemo cell: the dependencies and the result of the latest call.         *)

\* the dependency array of the card's useMemo at Date.now() = t
memoDeps(b, s, t) ==
    IF b = "A" THEN <<s.text>> ELSE <<s.text, t \div PERIOD_MS>>

\* useMemo(() => generateTOTP(secret), deps): the cell after a render at t
useMemo(cell, b, s, t) ==
    IF cell # NoCard /\ cell.deps = memoDeps(b, s, t) THEN cell
    ELSE [secret |-> s, deps |-> memoDeps(b, s, t), at |-> t,
          result |-> generateTOTP_page(s, t)]

\* the countdown of TimeLeft at Date.now() = t
TimeLeft(t) == 30 - ((t \div 1000) % 30)

\* the instants of the first render: the start of a period, inside it on and
\* off a full second, and up to three ticks before its end
FirstRenders ==
    {0, 1, 500, 999, 1000, 14000, PERIOD_MS - 2000, PERIOD_MS - 1500, PERIOD_MS - 1000,
     PERIOD_MS - 500, PERIOD_MS - 1}
\* the secrets of the cards: the two entries of the server specifications and
\* some of a long list
CardTexts == Plain \cup {BulkText(k) : k \in 1..Len(Base32Chars)}

InitCard ==
    /\ build \in Builds
    /\ now \in FirstRenders
    /\ requests = EmptyMap
    /\ last = NoCall
    /\ window = EmptyMap
    /\ ServerInit
    /\ totpCache = <<>>
    /\ \E text \in CardTexts :
          /\ history = <<Entry(1, text, "GitHub", 1)>>
          /\ card = useMemo(NoCard, build, Text(text), now)
    /\ cursor = 0
    /\ renders = 0
    /\ pendingSecret = NoPending
    /\ inputError = FALSE
    /\ storage = NoStorage
    /\ session = "anonymous"
    /\ net = <<>>
    /\ removed = {}
    /\ importing = NoImport

\* setInterval(..., 1000) fires: the state of the tick changes and the card
\* renders again
TickCard ==
    /\ renders < MaxRenders
    /\ renders' = renders + 1
    /\ now' = now + 1000
    /\ card' = useMemo(card, build, history[1].secret, now + 1000)
    /\ UNCHANGED <<build, requests, limiterVars, server, totpCache, cursor, history, page>>

\* the page is loaded again half a second later: the card mounts anew and
\* its useMemo computes
MountCard ==
    /\ renders < MaxRenders
    /\ renders' = renders + 1
    /\ now' = now + 500
    /\ card' = useMemo(NoCard, build, history[1].secret, now + 500)
    /\ UNCHANGED <<build, requests, limiterVars, server, totpCache, cursor, history, page>>

NextCard == TickCard \/ MountCard

SpecCard == InitCard /\ [][NextCard]_vars

----------------------------------------------------------------------------
(* app/page.tsx: Home.  The handlers of the page run to their first await in  *)
(* one action; a fetch in flight is an element of net, which the server        *)
(* answers in one action (the whole handler) and whose response the page       *)
(* handles in another.                                                         *)

\* what the page never touches on the server, and the cache of the cards
aside == <<build, last, window, shares, nextToken, req, issued, dead, lastPost,
           totpCache, cursor>>

\* what the user types or pastes, as the pieces of the string: blanks, a key
\* in either case, text that is no key, an otpauth:// URI that
\* OTPAuth.URI.parse accepts and one that it rejects
Inputs ==
    {<<"JBSWY3DP">>,
     <<" ", "jbsw", " ", "y3dp", " ">>,
     <<"1890-:">>,
     <<"otpauth://", "totp/", "Google", "?secret=", "GEZDGNBV">>,
     <<" ", "otpauth://", "totp?", " ">>}

RECURSIVE trimStart(_)
trimStart(s) == IF s # <<>> /\ Head(s) = " " THEN trimStart(Tail(s)) ELSE s

RECURSIVE trimEnd(_)
trimEnd(s) ==
    IF s # <<>> /\ s[Len(s)] = " " THEN trimEnd(SubSeq(s, 1, Len(s) - 1)) ELSE s

\* input.trim()
trim(s) == trimEnd(trimStart(s))

RECURSIVE Join(_)
\* the string the pieces make
Join(s) == IF s = <<>> THEN "" ELSE Head(s) \o Join(Tail(s))

\* toUpperCase() of a piece
toUpperCase(piece) ==
    IF piece = "jbsw" THEN "JBSW" ELSE IF piece = "y3dp" THEN "Y3DP" ELSE piece

\* trimmed.startsWith(prefix)
startsWith(s, prefix) == s # <<>> /\ Head(s) = prefix

\* OTPAuth.URI.parse(uri): throws unless the URI has a type, a label and a
\* secret parameter in base32
URIparse(s) ==
    IF Len(s) = 5 /\ s[2] = "totp/" /\ s[4] = "?secret=" /\ s[5] \in Base32Texts
    THEN [ok |-> TRUE, label |-> s[3], secret |-> s[5]]
    ELSE [ok |-> FALSE]

parseInput_DropsMalformed(input) ==
    LET trimmed == trim(input)
        bare == SelectSeq(trimmed, LAMBDA piece : piece # " ") IN
    IF startsWith(trimmed, "otpauth://")
    THEN LET totp == URIparse(trimmed) IN
         IF totp.ok THEN [secret |-> Text(totp.secret), label |-> totp.label]
         ELSE [secret |-> Text(""), label |-> ""]
    ELSE [secret |-> Text(Join([i \in 1..Len(bare) |-> toUpperCase(bare[i])])),
          label |-> ""]

\* parseInput(input)
parseInput(input) ==
    LET trimmed == trim(input)
        bare == SelectSeq(trimmed, LAMBDA piece : piece # " ") IN
    IF startsWith(trimmed, "otpauth://")
    THEN LET totp == URIparse(trimmed) IN
         IF totp.ok THEN [secret |-> Text(totp.secret), label |-> totp.label]
         ELSE [secret |-> Text(Join(trimmed)), label |-> ""]
    ELSE [secret |-> Text(Join([i \in 1..Len(bare) |-> toUpperCase(bare[i])])),
          label |-> ""]

LabelInputs == {"", "Work"}

\* the secrets arrays of the files a user may import
Files ==
    {<<[secret |-> Text("   "), label |-> "", createdAt |-> 0]>>,
     <<[secret |-> Text("GEZDGNBV"), label |-> "Google", createdAt |-> 2],
       [secret |-> Text("1890-:"), label |-> "Bad", createdAt |-> 1]>>}

\* crypto.randomUUID(): an id no entry of the list carries
UuidBase == 100
randomUUID(used) == CHOOSE id \in (UuidBase + 1)..(UuidBase + Cardinality(used) + 1) :
                        id \notin used
IdsOf(list) == {list[i].id : i \in 1..Len(list)}
SecretsOf(list) == {list[i].secret : i \in 1..Len(list)}

saveToStorage_Always(entries) == [saved |-> TRUE, list |-> entries]

\* saveToStorage(entries): only a guest writes the local store
saveToStorage(entries) ==
    IF session = Anonymous THEN [saved |-> TRUE, list |-> entries] ELSE storage

\* the fetch of syncWithServer(localHistory); a guest sends none
syncWithServer(localHistory) ==
    IF session = Anonymous THEN net
    ELSE Append(net, [op |-> "POST", user |-> session, state |-> "sent",
                      body |-> [i \in 1..Len(localHistory) |->
                                   [secret |-> localHistory[i].secret,
                                    label |-> localHistory[i].label,
                                    createdAt |-> localHistory[i].createdAt]]])

\* setHistory(newHistory), saveToStorage(newHistory), syncWithServer(newHistory)
Publish(newHistory) ==
    /\ history' = newHistory
    /\ storage' = saveToStorage(newHistory)
    /\ net' = syncWithServer(newHistory)

\* addEntry(secret, label)
addEntry(secret, label) ==
    IF secret \in SecretsOf(history)
    THEN UNCHANGED <<history, storage, net, removed>>
    ELSE /\ Publish(<<[id |-> randomUUID(IdsOf(history)), secret |-> secret,
                       label |-> label, createdAt |-> now]>> \o history)
         /\ removed' = removed \ {secret}

\* one more action of the user
Act ==
    /\ renders < MaxActs
    /\ importing.phase # "dialog"
    /\ renders' = renders + 1

\* the generateTOTP call a handler validates its input with
Validation(by, secret) ==
    [by |-> by, n |-> renders + 1, secret |-> secret,
     result |-> generateTOTP_page(secret, now)]

\* handleSubmit with processOtpInput(input); no input of Inputs is blank or
\* parses to an empty secret
handleSubmit(input) ==
    /\ Act
    /\ LET parsed == parseInput(input)
           v == Validation("submit", parsed.secret) IN
       /\ card' = v @@ [input |-> input, label |-> parsed.label]
       /\ IF "error" \in DOMAIN v.result
          THEN /\ inputError' = TRUE
               /\ UNCHANGED <<history, pendingSecret, storage, net, removed>>
          ELSE IF parsed.secret \in SecretsOf(history)
          THEN UNCHANGED <<history, pendingSecret, inputError, storage, net, removed>>
          ELSE IF parsed.label # ""
          THEN addEntry(parsed.secret, parsed.label) /\ UNCHANGED <<pendingSecret, inputError>>
          ELSE /\ pendingSecret' = parsed
               /\ UNCHANGED <<history, inputError, storage, net, removed>>
    /\ UNCHANGED <<aside, importing, now, requests, secrets, nextId, out, served,  session>>

\* onChange of the input clears the error flag
editInput ==
    /\ inputError
    /\ inputError' = FALSE
    /\ UNCHANGED <<aside, importing, now, requests, secrets, nextId, out, served,  card,
                   renders, history, pendingSecret, storage, session, net, removed>>

\* handleLabelSubmit: labelInput.trim() || "Unnamed"
handleLabelSubmit(labelInput) ==
    /\ Act
    /\ pendingSecret # NoPending
    /\ addEntry(pendingSecret.secret, IF labelInput = "" THEN "Unnamed" ELSE labelInput)
    /\ pendingSecret' = NoPending
    /\ UNCHANGED <<aside, importing, now, requests, secrets, nextId, out, served,  card,
                   inputError, session>>

has_Never(set, secret) == FALSE

\* existingSecrets.has(s.secret)
has(set, secret) == secret \in set

RECURSIVE importNew(_, _, _)
\* the loop of importConfig over the file's items: the new entries, given the
\* secrets and ids there are
importNew(items, existingSecrets, usedIds) ==
    IF items = <<>> THEN <<>>
    ELSE LET item == Head(items) IN
         IF \/ item.secret.text = ""
            \/ has(existingSecrets, item.secret)
            \/ "error" \in DOMAIN generateTOTP_page(item.secret, now)
         THEN importNew(Tail(items), existingSecrets, usedIds)
         ELSE LET id == randomUUID(usedIds) IN
              <<[id |-> id, secret |-> item.secret,
                 label |-> IF item.label = "" THEN "Imported" ELSE item.label,
                 createdAt |-> IF item.createdAt = 0 THEN now ELSE item.createdAt]>>
                  \o importNew(Tail(items), existingSecrets \cup {item.secret},
                               usedIds \cup {id})

\* importConfig(): the file dialog opens; input.onchange is a function of this
\* render and holds its history
importConfig ==
    /\ Act
    /\ importing = NoImport
    /\ importing' = [phase |-> "dialog", history |-> history]
    /\ UNCHANGED <<aside, now, requests, secrets, nextId, out, served, card,
                   history, pendingSecret, inputError, storage, session, net, removed>>

\* the user picks a file: onchange runs up to `await file.text()`
chooseFile(file) ==
    /\ importing.phase = "dialog"
    /\ importing' = [phase |-> "reading", history |-> importing.history, file |-> file]
    /\ UNCHANGED <<aside, now, requests, secrets, nextId, out, served, card, renders,
                   history, pendingSecret, inputError, storage, session, net, removed>>

\* the user closes the dialog without a file: no change event
cancelFile ==
    /\ importing.phase = "dialog"
    /\ importing' = NoImport
    /\ UNCHANGED <<aside, now, requests, secrets, nextId, out, served, card, renders,
                   history, pendingSecret, inputError, storage, session, net, removed>>

\* the history that input.onchange reads: the one of the render that made it
onchange_history(held) == held

\* onchange after the await: the file is read
onchange ==
    /\ importing.phase = "reading"
    /\ importing' = NoImport
    /\ LET old == onchange_history(importing.history)
           newEntries == importNew(importing.file, SecretsOf(old),
                                   IdsOf(old) \cup IdsOf(history)) IN
       IF newEntries = <<>>
       THEN UNCHANGED <<history, storage, net, removed>>
       ELSE /\ Publish(newEntries \o old)
            /\ removed' = removed \ SecretsOf(newEntries)
    /\ UNCHANGED <<aside, now, requests, secrets, nextId, out, served, card, renders,
                   pendingSecret, inputError, session>>

\* removeEntry(id) for the entry at i; a logged-in page sends
\* DELETE /api/secrets?secret=...
removeEntry(i) ==
    /\ Act
    /\ i \in 1..Len(history)
    /\ LET entry == history[i]
           newHistory == SelectSeq(history, LAMBDA e : e.id # entry.id) IN
       /\ history' = newHistory
       /\ storage' = saveToStorage(newHistory)
       /\ net' = IF session = Anonymous THEN net
                 ELSE Append(net, [op |-> "DELETE", user |-> session, state |-> "sent",
                                   secret |-> entry.secret])
    /\ UNCHANGED <<aside, importing, now, requests, secrets, nextId, out, served,  card,
                   pendingSecret, inputError, session, removed>>

\* cancelPending: the label form is closed
cancelPending ==
    /\ Act
    /\ pendingSecret # NoPending
    /\ pendingSecret' = NoPending
    /\ UNCHANGED <<aside, importing, now, requests, secrets, nextId, out, served, card,
                   history, inputError, storage, session, net, removed>>

\* updateLabel(id, newLabel) for the entry at i; a logged-in page sends
\* PATCH /api/secrets
updateLabel(i, newLabel) ==
    LET newHistory == [history EXCEPT ![i].label = newLabel] IN
    /\ history' = newHistory
    /\ storage' = saveToStorage(newHistory)
    /\ net' = IF session = Anonymous THEN net
              ELSE Append(net, [op |-> "PATCH", user |-> session, state |-> "sent",
                                secret |-> history[i].secret, label |-> newLabel])

\* handleSaveLabel of the card at i with the text of its edit field
handleSaveLabel(i, editLabel) ==
    /\ Act
    /\ i \in 1..Len(history)
    /\ IF editLabel # "" /\ editLabel # history[i].label
       THEN updateLabel(i, editLabel)
       ELSE UNCHANGED <<history, storage, net>>
    /\ UNCHANGED <<aside, importing, now, requests, secrets, nextId, out, served, card,
                   pendingSecret, inputError, session, removed>>

\* every fetch of the page has come to its end
AtRest ==
    /\ \A k \in 1..Len(net) : net[k].state \in {"done", "failed"}
    /\ importing = NoImport

\* signIn: the session appears and the effect of line 429 sends the list
signIn ==
    /\ Act
    /\ importing = NoImport
    /\ session = Anonymous
    /\ session' = "u1"
    /\ net' = Append(net, [op |-> "POST", user |-> "u1", state |-> "sent",
                           body |-> [i \in 1..Len(history) |->
                                        [secret |-> history[i].secret,
                                         label |-> history[i].label,
                                         createdAt |-> history[i].createdAt]]])
    /\ UNCHANGED <<aside, importing, now, requests, secrets, nextId, out, served,  card,
                   history, pendingSecret, inputError, storage, removed>>

\* the page is loaded again: the mount effect reads the local store, and for a
\* session the effect of line 429 sends the list read
mount ==
    /\ Act
    /\ AtRest
    /\ LET saved == IF storage.saved THEN storage.list ELSE <<>> IN
       /\ history' = saved
       /\ net' = IF session = Anonymous THEN <<>>
                 ELSE <<[op |-> "POST", user |-> session, state |-> "sent",
                         body |-> [i \in 1..Len(saved) |->
                                      [secret |-> saved[i].secret, label |-> saved[i].label,
                                       createdAt |-> saved[i].createdAt]]]>>
    /\ pendingSecret' = NoPending
    /\ inputError' = FALSE
    /\ UNCHANGED <<aside, importing, now, requests, secrets, nextId, out, served,  card,
                   storage, session, removed>>

\* Date.now() moves on
clock ==
    /\ now < MaxStamp
    /\ now' = now + 1
    /\ UNCHANGED <<aside, importing, requests, secrets, nextId, out, served,  card, renders,
                   history, pendingSecret, inputError, storage, session, net, removed>>

\* NextResponse.json: a Date goes over the wire as its ISO string
toJSON(body) ==
    [i \in 1..Len(body) |->
        [id |-> body[i].id, secret |-> body[i].secret, label |-> body[i].label,
         createdAt |-> [iso |-> body[i].createdAt]]]

\* the fetch at k has got the server's answer
Answered(k, resp) ==
    net' = [net EXCEPT ![k] = [@ EXCEPT !.state = "answered"] @@ [response |-> resp]]

\* the secrets POST handler, start to end, on the page's fetch at k
servePost(k) ==
    /\ k \in 1..Len(net)
    /\ net[k].state = "sent" /\ net[k].op = "POST"
    /\ served < MaxReqs
    /\ served' = served + 1
    /\ Reserved + Len(net[k].body) <= MaxIds
    /\ LET lim == Limiter(build, requests, ClientIP, now)
           u == net[k].user
           body == net[k].body
           todo == [i \in 1..Len(body) |->
                       [secret |-> encrypt(body[i].secret, FreshIVs(Len(body), UsedIVs)[i]),
                        label |-> body[i].label, createdAt |-> body[i].createdAt]]
           db == ApplyAll([secrets |-> secrets, nextId |-> nextId], u, todo) IN
       /\ requests' = lim.requests
       /\ IF ~lim.success
          THEN /\ out' = TooMany("POST", lim) @@ [user |-> u]
               /\ Answered(k, [ok |-> FALSE, status |-> 429])
               /\ UNCHANGED <<secrets, nextId, lastPost>>
          ELSE /\ secrets' = db.secrets
               /\ nextId' = db.nextId
               /\ lastPost' = [user |-> u, batch |-> body]
               /\ \E list \in Sorted(OwnerRows(db.secrets, u)) :
                     /\ out' = Listing("POST", u, list)
                     /\ Answered(k, [ok |-> TRUE, status |-> 200,
                                     body |-> toJSON(Decrypted(list))])
    /\ UNCHANGED <<build, now, limiterVars, shares, nextToken, req, issued, dead, totpCache,
                   card, cursor, renders, history, pendingSecret, inputError, storage,
                   session, removed, importing>>

\* the secrets DELETE handler on the page's fetch at k: the query of the fetch
\* has no id parameter, searchParams.get("id") is null
serveDelete(k) ==
    /\ k \in 1..Len(net)
    /\ net[k].state = "sent" /\ net[k].op = "DELETE"
    /\ served < MaxReqs
    /\ served' = served + 1
    /\ LET lim == Limiter(build, requests, ClientIP, now) IN
       /\ requests' = lim.requests
       /\ IF ~lim.success
          THEN /\ out' = TooMany("DELETE", lim) @@ [user |-> net[k].user]
               /\ Answered(k, [ok |-> FALSE, status |-> 429])
          ELSE /\ out' = Status("DELETE", 400, TRUE) @@ [user |-> net[k].user]
               /\ Answered(k, [ok |-> FALSE, status |-> 400])
    /\ UNCHANGED <<build, now, limiterVars, tables, req, ghosts, totpCache, card, cursor,
                   renders, history, pendingSecret, inputError, storage, session, removed,
                   importing>>

\* PATCH /api/secrets: the route exports GET, POST and DELETE; no handler runs
servePatch(k) ==
    /\ k \in 1..Len(net)
    /\ net[k].state = "sent" /\ net[k].op = "PATCH"
    /\ Answered(k, [ok |-> FALSE, status |-> 405])
    /\ UNCHANGED <<aside, importing, now, requests, secrets, nextId, out, served, card,
                   renders, history, pendingSecret, inputError, storage, session, removed>>

\* the response of the PATCH at k reaches the page: updateLabel does not read it
patchDone(k) ==
    /\ k \in 1..Len(net)
    /\ net[k].state = "answered" /\ net[k].op = "PATCH"
    /\ net' = [net EXCEPT ![k].state = "done"]
    /\ UNCHANGED <<aside, importing, now, requests, secrets, nextId, out, served, card,
                   renders, history, pendingSecret, inputError, storage, session, removed>>

\* const merged = serverSecrets.map(...): createdAt back to milliseconds
merged(serverSecrets) ==
    [i \in 1..Len(serverSecrets) |->
        [id |-> serverSecrets[i].id, secret |-> serverSecrets[i].secret,
         label |-> serverSecrets[i].label, createdAt |-> serverSecrets[i].createdAt.iso]]

syncOutcome_KeepsLocal(res, list, store) ==
    IF res.ok THEN [history |-> merged(res.body), storage |-> store]
    ELSE [history |-> list, storage |-> store]

\* syncWithServer after the await: if (res.ok) { setHistory(merged);
\* localStorage.removeItem(STORAGE_KEY) }
syncOutcome(res, list, store) ==
    IF res.ok THEN [history |-> merged(res.body), storage |-> NoStorage]
    ELSE [history |-> list, storage |-> store]

\* the response of the sync at k reaches the page
syncDone(k) ==
    /\ k \in 1..Len(net)
    /\ net[k].state = "answered" /\ net[k].op = "POST"
    /\ LET after == syncOutcome(net[k].response, history, storage) IN
       /\ history' = after.history
       /\ storage' = after.storage
    /\ net' = [net EXCEPT ![k].state = "done"]
    /\ UNCHANGED <<aside, importing, now, requests, secrets, nextId, out, served, card, renders,
                   pendingSecret, inputError, session, removed>>

\* the response of the DELETE at k reaches the page: removeEntry does not read it
deleteDone(k) ==
    /\ k \in 1..Len(net)
    /\ net[k].state = "answered" /\ net[k].op = "DELETE"
    /\ net' = [net EXCEPT ![k].state = "done"]
    /\ removed' = removed \cup {net[k].secret}
    /\ UNCHANGED <<aside, importing, now, requests, secrets, nextId, out, served, card, renders,
                   history, pendingSecret, inputError, storage, session>>

\* fetch rejects (the request did not reach the server): catch {}
fetchFails(k) ==
    /\ k \in 1..Len(net)
    /\ net[k].state = "sent"
    /\ net' = [net EXCEPT ![k].state = "failed"]
    /\ UNCHANGED <<aside, importing, now, requests, secrets, nextId, out, served, card, renders,
                   history, pendingSecret, inputError, storage, session, removed>>

InitClient ==
    /\ build \in Builds
    /\ now = 1
    /\ requests \in LimiterStarts
    /\ last = NoCall
    /\ window = EmptyMap
    /\ ServerInit
    /\ totpCache = <<>>
    /\ card = NoCard
    /\ cursor = 0
    /\ renders = 0
    /\ history = <<>>
    /\ pendingSecret = NoPending
    /\ inputError = FALSE
    /\ storage = NoStorage
    /\ session \in {Anonymous, "u1"}
    /\ net = <<>>
    /\ removed = {}
    /\ importing = NoImport

NextClient ==
    \/ \E input \in Inputs : handleSubmit(input)
    \/ editInput
    \/ \E labelInput \in LabelInputs : handleLabelSubmit(labelInput)
    \/ importConfig
    \/ \E file \in Files : chooseFile(file)
    \/ cancelFile
    \/ onchange
    \/ \E i \in 1..MaxActs : removeEntry(i)
    \/ cancelPending
    \/ \E i \in 1..MaxActs, editLabel \in LabelInputs : handleSaveLabel(i, editLabel)
    \/ signIn
    \/ mount
    \/ clock
    \/ \E k \in 1..MaxActs :
          \/ servePost(k) \/ serveDelete(k) \/ servePatch(k)
          \/ syncDone(k) \/ deleteDone(k) \/ patchDone(k) \/ fetchFails(k)

SpecClient == InitClient /\ [][NextClient]_vars

----------------------------------------------------------------------------
(* The page of a guest: no session, every change goes to the local store *)

\* the lists that earlier visits of a guest left in the local store
GuestStores ==
    {<<>>,
     <<Entry(UuidBase + 1, "JBSWY3DP", "GitHub", 0)>>,
     <<Entry(UuidBase + 2, "GEZDGNBV", "Google", 0),
       Entry(UuidBase + 1, "JBSWY3DP", "GitHub", 0)>>}

\* the page after its mount effect has read the local store
InitGuest ==
    /\ build \in Builds
    /\ now = 1
    /\ requests = EmptyMap
    /\ last = NoCall
    /\ window = EmptyMap
    /\ ServerInit
    /\ totpCache = <<>>
    /\ card = NoCard
    /\ cursor = 0
    /\ renders = 0
    /\ history \in GuestStores
    /\ pendingSecret = NoPending
    /\ inputError = FALSE
    /\ storage = IF history = <<>> THEN NoStorage ELSE [saved |-> TRUE, list |-> history]
    /\ session = Anonymous
    /\ net = <<>>
    /\ removed = {}
    /\ importing = NoImport

NextGuest ==
    \/ \E input \in Inputs : handleSubmit(input)
    \/ editInput
    \/ \E labelInput \in LabelInputs : handleLabelSubmit(labelInput)
    \/ cancelPending
    \/ importConfig
    \/ \E file \in Files : chooseFile(file)
    \/ cancelFile
    \/ onchange
    \/ \E i \in 1..(MaxActs + 2) : removeEntry(i)
    \/ \E i \in 1..(MaxActs + 2), editLabel \in LabelInputs : handleSaveLabel(i, editLabel)
    \/ mount
    \/ clock

SpecGuest == InitGuest /\ [][NextGuest]_vars

----------------------------------------------------------------------------
(* A guest with a local store logs in: the identity provider sends the       *)
(* browser back to the page, which mounts with a session.  The network       *)
(* delivers every request and every response.                                *)

\* what the guest's visits left in the local store
LoginStore ==
    <<Entry(UuidBase + 2, "GEZDGNBV", "Google", 0),
      Entry(UuidBase + 1, "JBSWY3DP", "GitHub", 0)>>

\* the limiter's Map when the page comes back: empty, or with the quota of
\* the address used up by the requests before
LoginLimiterStarts ==
    {EmptyMap,
     MapSet(EmptyMap, ClientIP, [count |-> MAX_REQUESTS, resetTime |-> WINDOW_MS])}

InitLogin ==
    /\ build \in Builds
    /\ now = 1
    /\ requests \in LoginLimiterStarts
    /\ last = NoCall
    /\ window = EmptyMap
    /\ ServerInit
    /\ totpCache = <<>>
    /\ card = NoCard
    /\ cursor = 0
    /\ renders = 0
    /\ history = <<>>
    /\ pendingSecret = NoPending
    /\ inputError = FALSE
    /\ storage = [saved |-> TRUE, list |-> LoginStore]
    /\ session = "u1"
    /\ net = <<>>
    /\ removed = {}
    /\ importing = NoImport

NextLogin ==
    \/ mount
    \/ \E i \in 1..MaxActs : removeEntry(i)
    \/ \E i \in 1..MaxActs, editLabel \in LabelInputs : handleSaveLabel(i, editLabel)
    \/ clock
    \/ \E k \in 1..MaxActs :
          \/ servePost(k) \/ serveDelete(k) \/ servePatch(k)
          \/ syncDone(k) \/ deleteDone(k) \/ patchDone(k)

\* the server answers a request it got, and the page handles a response it got
SpecLogin ==
    /\ InitLogin /\ [][NextLogin]_vars
    /\ WF_vars(\E k \in 1..MaxActs : servePost(k))
    /\ WF_vars(\E k \in 1..MaxActs : syncDone(k))

----------------------------------------------------------------------------
(* The page of a logged-in owner with the share button: the owner shares,    *)
(* revokes and loads the page again; every fetch is answered.                *)

\* entry.shareToken: undefined in an entry that never got one
shareTokenOf(e) == IF "shareToken" \in DOMAIN e THEN e.shareToken ELSE NoToken

\* createShare: fetch(`/api/secrets/${id}/share`, { method: "POST" })
createShare(id) ==
    net' = Append(net, [op |-> "SHARE", user |-> session, state |-> "sent", id |-> id])

\* the share button of a card without a token, or of a card with a token when
\* the owner opens the modal: openShareModal shows the token the entry has,
\* and asks the server for one when it has none
openShareModal(i) ==
    /\ Act
    /\ session # Anonymous
    /\ i \in 1..Len(history)
    /\ IF shareTokenOf(history[i]) # NoToken
       THEN net' = net
       ELSE createShare(history[i].id)
    /\ UNCHANGED <<aside, importing, now, requests, secrets, nextId, out, served, card,
                   history, pendingSecret, inputError, storage, session, removed>>

\* the share button of a card that shows "Sharing active": revokeShare
revokeShare(i) ==
    /\ Act
    /\ session # Anonymous
    /\ i \in 1..Len(history)
    /\ shareTokenOf(history[i]) # NoToken
    /\ net' = Append(net, [op |-> "REVOKE", user |-> session, state |-> "sent",
                           id |-> history[i].id])
    /\ UNCHANGED <<aside, importing, now, requests, secrets, nextId, out, served, card,
                   history, pendingSecret, inputError, storage, session, removed>>

\* the share POST handler, start to end, on the page's fetch at k
serveShare(k) ==
    /\ k \in 1..Len(net)
    /\ net[k].state = "sent" /\ net[k].op = "SHARE"
    /\ served < MaxReqs
    /\ served' = served + 1
    /\ LET id == net[k].id
           u == net[k].user
           live == LiveTokens(id, u) IN
       IF FindSecret(secrets, id, u) = {}
       THEN /\ out' = IssueAnswer(404, NoToken, "none", live) @@ [user |-> u]
            /\ Answered(k, [ok |-> FALSE, status |-> 404])
            /\ UNCHANGED <<shares, nextToken, issued>>
       ELSE IF ShareOf(shares, id) # {}
       THEN \E sh \in ShareOf(shares, id) :
               /\ out' = IssueAnswer(200, sh.token, "existing", live) @@ [user |-> u]
               /\ Answered(k, [ok |-> TRUE, status |-> 200, token |-> sh.token])
               /\ issued' = [issued EXCEPT ![id] = @ \cup {sh.token}]
               /\ UNCHANGED <<shares, nextToken>>
       ELSE /\ nextToken <= MaxTokens
            /\ shares' = shares \cup
                         {[id |-> nextToken, token |-> nextToken, secretId |-> id]}
            /\ nextToken' = nextToken + 1
            /\ issued' = [issued EXCEPT ![id] = @ \cup {nextToken}]
            /\ out' = IssueAnswer(200, nextToken, "created", live) @@ [user |-> u]
            /\ Answered(k, [ok |-> TRUE, status |-> 200, token |-> nextToken])
    /\ UNCHANGED <<build, now, requests, limiterVars, secrets, nextId, req, lastPost, dead,
                   totpCache, card, cursor, renders, history, pendingSecret, inputError,
                   storage, session, removed, importing>>

\* the share DELETE handler, start to end, on the page's fetch at k
serveRevoke(k) ==
    /\ k \in 1..Len(net)
    /\ net[k].state = "sent" /\ net[k].op = "REVOKE"
    /\ served < MaxReqs
    /\ served' = served + 1
    /\ LET id == net[k].id
           u == net[k].user IN
       IF FindSecret(secrets, id, u) = {}
       THEN /\ out' = Status("revoke", 404, FALSE) @@ [user |-> u]
            /\ Answered(k, [ok |-> FALSE, status |-> 404])
            /\ UNCHANGED <<shares, issued, dead>>
       ELSE /\ shares' = DeleteShares(shares, id)
            /\ dead' = dead \cup {[token |-> sh.token, by |-> "revoke"] :
                                    sh \in ShareOf(shares, id)}
            /\ issued' = [issued EXCEPT ![id] = {}]
            /\ out' = Status("revoke", 200, FALSE) @@ [user |-> u]
            /\ Answered(k, [ok |-> TRUE, status |-> 200])
    /\ UNCHANGED <<build, now, requests, limiterVars, secrets, nextId, nextToken, req,
                   lastPost, totpCache, card, cursor, renders, history, pendingSecret,
                   inputError, storage, session, removed, importing>>

\* prev.map((e) => (e.id === id ? { ...e, shareToken: token } : e))
withShareToken(prev, id, token) ==
    [i \in 1..Len(prev) |->
        IF prev[i].id = id THEN [shareToken |-> token] @@ prev[i] ELSE prev[i]]

\* createShare after the await: if (res.ok) setHistory(...)
shareDone(k) ==
    /\ k \in 1..Len(net)
    /\ net[k].state = "answered" /\ net[k].op = "SHARE"
    /\ history' = IF net[k].response.ok
                  THEN withShareToken(history, net[k].id, net[k].response.token)
                  ELSE history
    /\ net' = [net EXCEPT ![k].state = "done"]
    /\ UNCHANGED <<aside, importing, now, requests, secrets, nextId, out, served, card,
                   renders, pendingSecret, inputError, storage, session, removed>>

\* revokeShare after the await: if (res.ok) setHistory(... shareToken: null)
revokeDone(k) ==
    /\ k \in 1..Len(net)
    /\ net[k].state = "answered" /\ net[k].op = "REVOKE"
    /\ history' = IF net[k].response.ok
                  THEN withShareToken(history, net[k].id, NoToken)
                  ELSE history
    /\ net' = [net EXCEPT ![k].state = "done"]
    /\ UNCHANGED <<aside, importing, now, requests, secrets, nextId, out, served, card,
                   renders, pendingSecret, inputError, storage, session, removed>>

NextSharing ==
    \/ mount
    \/ clock
    \/ \E i \in 1..MaxIds : openShareModal(i) \/ revokeShare(i)
    \/ \E k \in 1..MaxActs :
          \/ servePost(k) \/ serveShare(k) \/ serveRevoke(k)
          \/ syncDone(k) \/ shareDone(k) \/ revokeDone(k)

SpecSharing == InitLogin /\ [][NextSharing]_vars

----------------------------------------------------------------------------
(* C1: reconcile is idempotent: running the secrets POST with the same batch *)
(* twice in succession for one owner leaves the owner's stored set as it was *)
(* after the first call; no entry is duplicated.                             *)
C1_ReconcileIdempotent ==
    [][\A r \in Reqs :
          (/\ req[r].op = "POST" /\ req[r].pc = "tx" /\ req[r].todo = <<>>
           /\ req'[r].pc = "find"
           /\ req[r].repeat
           /\ lastPost = [user |-> req[r].user, batch |-> req[r].batch])
          => OwnerRows(secrets', req[r].user) = OwnerRows(secrets, req[r].user)]_vars

(* C2: for every owner no two stored entries hold the same secret material,  *)
(* compared on the decrypted value.                                          *)
C2_UniquePerOwner ==
    \A a, b \in secrets :
        (a.userId = b.userId /\ decrypt(a.secret) = decrypt(b.secret)) => a = b

(* C3: a reader of an owner's list that runs concurrently with a reconcile   *)
(* sees none or all of the batch's upserts: the statements a reconcile       *)
(* executes before its commit leave the table as every reader sees it.       *)
C3_BatchAtomic ==
    [][\A r \in Reqs :
          (/\ req[r].op = "POST" /\ req[r].pc = "tx"
           /\ req'[r].pc = "tx"
           /\ req'[r].done # req[r].done)
          => secrets' = secrets]_vars

C3_Witness ==
    /\ out.op \in {"GET", "POST"}
    /\ out.status = 200
    /\ out.midTx

(* C4: counting from the request that opens a window, requests 1..100 made   *)
(* before the window expires are allowed; request 101 and every later one    *)
(* before expiry is denied and reports that window's reset time.             *)
C4_WindowQuota ==
    last.ip # "none" =>
        LET w == window[last.ip] IN
        /\ w.n <= MAX_REQUESTS => last.result.success
        /\ w.n > MAX_REQUESTS =>
              /\ ~last.result.success
              /\ last.result.resetTime = w.resetAt

C4_Witness ==
    /\ last.ip # "none"
    /\ window[last.ip].n = MAX_REQUESTS + 2
    /\ ~last.result.success

(* C5: for an identity whose window has expired, the next request is allowed *)
(* whatever the previous count was, and afterwards its record has count 1    *)
(* and a reset time of the current time plus 15 minutes.                     *)
C5_ExpiredRestarts ==
    (last.ip # "none" /\ last.expired) =>
        /\ last.result.success
        /\ last.ip \in DOMAIN requests
        /\ requests[last.ip] = [count |-> 1, resetTime |-> now + WINDOW_MS]

C5_Witness ==
    /\ last.ip # "none"
    /\ last.expired
    /\ last.prev = MAX_REQUESTS
    /\ last.result.success

(* C6: every server-side request handler calls the rate limiter before any  *)
(* authentication, store access or code generation: no handler is at work    *)
(* and no answer was sent without the limiter having been asked.             *)
C6_LimiterGatesAll ==
    /\ \A r \in Reqs : req[r].op # "idle" => req[r].gated
    /\ out.op # "none" => out.gated

(* C7: issueOrGet is idempotent: when a live token exists for an entry, the  *)
(* share POST returns that token and leaves the token table as it is, so all *)
(* the calls for an entry since its last revoke returned the one live token. *)
C7_IssueIdempotent ==
    /\ \A id \in Ids :
          /\ Cardinality(issued[id]) <= 1
          /\ issued[id] \subseteq {sh.token : sh \in {x \in shares : x.secretId = id}}
    /\ (out.op = "issue" /\ out.status # 401 /\ out.live # {}) =>
          /\ out.status = 200
          /\ out.token \in out.live
          /\ out.via = "existing"

C7_Witness ==
    /\ out.op = "issue"
    /\ out.status = 200
    /\ out.via = "existing"
    /\ out.live # {}

(* C8: under any interleaving of issue, revoke and delete, no entry has more *)
(* than one live token and no token maps to more than one entry.             *)
C8_OneTokenPerEntry ==
    \A a, b \in shares :
        (a.secretId = b.secretId \/ a.token = b.token) => a = b

C8_Witness ==
    \E r \in Reqs :
        /\ req[r].op = "issue" /\ req[r].pc = "create"
        /\ \E sh \in shares : sh.secretId = req[r].id

(* C9: after revoke for an entry completes, resolve of the token that was    *)
(* live for that entry fails with NotFound.                                  *)
C9_RevokedNotFound ==
    (out.op = "resolve" /\ "revoke" \in out.after) => out.status = 404

C9_Witness ==
    /\ out.op = "resolve"
    /\ "revoke" \in out.after

(* C10: every share token references an existing entry: once the secrets     *)
(* DELETE removed an entry no token for it remains, and resolve of its       *)
(* former token fails with NotFound.                                         *)
C10_NoDanglingToken ==
    /\ \A sh \in shares : \E row \in secrets : row.id = sh.secretId
    /\ (out.op = "resolve" /\ "delete" \in out.after) => out.status = 404

C10_Witness ==
    /\ out.op = "resolve"
    /\ "delete" \in out.after

\* the fields of an answer that describe the request, not its body
Meta == {"op", "status", "gated", "token", "after"}

\* the bodies the spec allows the public route: an error text, or the label,
\* the six-digit code and the seconds left
PublicBodies ==
    [error : {"Not found", "Invalid secret", "TypeError"}]
        \cup [label : Labels, otp : 0..((10 ^ DIGITS) - 1), timeLeft : 1..30]

\* the step in which the public route answers
ResolveStep == served' = served + 1 /\ req' = req /\ out'.op = "resolve"

C12_ResolveGivesCode ==
    [][ResolveStep =>
          \A sh \in shares : sh.token = out'.token =>
             \A row \in secrets : row.id = sh.secretId =>
                /\ out'.status = 200
                /\ out'.label = row.label
                /\ out'.otp = generateTOTP(decrypt(row.secret), now).otp]_vars

\* the step in which GET or POST answers with the list it read
ListStep(r) == req[r].op \in {"GET", "POST"} /\ req[r].pc = "find" /\ req'[r] = Idle

\* body lists exactly rows: each row once, its secret in plain text, the later
\* createdAt first
IsStoreList(body, rows) ==
    /\ Len(body) = Cardinality(rows)
    /\ \A row \in rows : \E i \in 1..Len(body) :
          body[i] = [id |-> row.id, secret |-> [fmt |-> "text", text |-> row.secret.text],
                     label |-> row.label, createdAt |-> row.createdAt]
    /\ \A i, j \in 1..Len(body) : i < j => body[i].createdAt >= body[j].createdAt

HasItem(body, item) ==
    \E i \in 1..Len(body) :
        /\ body[i].secret = item.secret
        /\ body[i].label = item.label
        /\ body[i].createdAt = item.createdAt

AnonymousStep ==
    /\ served' = served + 1
    /\ req' = req
    /\ "user" \in DOMAIN out'
    /\ out'.user = Anonymous

(* C20, as the spec states it: an owner-scoped request (secrets GET, POST,   *)
(* DELETE, share issue, revoke, token read) without a valid session is       *)
(* answered with Unauthorized and leaves the secret store and the token      *)
(* table unchanged.                                                          *)
C20_Unauthorized ==
    [][/\ AnonymousStep => (out'.status = 401 /\ secrets' = secrets /\ shares' = shares)
       /\ \A r \in Reqs : req'[r].op # "idle" => req'[r].user # Anonymous]_vars

(* C20, amended: an owner-scoped request without a valid session is answered *)
(* with Unauthorized, or with TooManyRequests when it is a request to the    *)
(* secrets route that the rate limiter denies first; in both cases the       *)
(* secret store and the token table are unchanged and no handler goes on.    *)
C20_UnauthorizedOrLimited ==
    [][/\ AnonymousStep =>
             /\ out'.status = IF out'.op \in {"GET", "POST", "DELETE"}
                                  /\ ~Limiter(build, requests, ClientIP, now).success
                               THEN 429 ELSE 401
             /\ secrets' = secrets
             /\ shares' = shares
       /\ \A r \in Reqs : req'[r].op # "idle" => req'[r].user # Anonymous]_vars

C20_Witness ==
    /\ "user" \in DOMAIN out
    /\ out.user = Anonymous
    /\ out.status = 401
    /\ secrets # {}
    /\ shares # {}

\* the code and the seconds left of a result, or its error
Shown(result) ==
    IF "error" \in DOMAIN result THEN result
    ELSE [code |-> result.code, timeLeft |-> result.timeLeft]

(* C13: caching never changes the output of generate: for every sequence of  *)
(* calls at non-decreasing times, each result of the cached generator, the   *)
(* code and the remaining seconds, equals what the uncached generator        *)
(* returns for the same secret at the same time.                             *)
C13_CacheTransparent ==
    card # NoCard => Shown(card.result) = card.plain

(* C14: the code cache is bounded: after any sequence of generate calls over *)
(* any number of distinct secrets the cache does not hold more entries than  *)
(* its capacity of 100.                                                      *)
C14_CacheBounded ==
    Cardinality(DOMAIN totpCache) <= CACHE_SIZE

(* C15: generate fails with InvalidSecret for every secret that does not     *)
(* decode, the empty one and one made of whitespace included; it returns no  *)
(* success result for such a secret.                                         *)
C15_UndecodableFails ==
    (card # NoCard /\ ~IsBase32(card.secret)) =>
        (card.plain = InvalidSecret /\ card.result = InvalidSecret)

\* generate produced a code: a result that is no error and carries the digits
IsCode(result) ==
    "error" \notin DOMAIN result /\ result.code # EmptyCode

\* the entries the page made itself (those of a server response carry the id
\* of their row)
MadeHere(list) ==
    {i \in 1..Len(list) : list[i].id > UuidBase}

(* C16: an entry is added to the client list (by input submit, label submit  *)
(* or import) only if generate produced a code for its secret; when generate *)
(* fails on a submitted input, the list, the pending secret and the local    *)
(* store are unchanged and the input-error flag is set.                      *)
C16_OnlyValidAdded ==
    [][/\ \A i \in MadeHere(history') :
            IsCode(generateTOTP_page(history'[i].secret, now'))
       /\ (card' # card /\ ~IsCode(card'.result)) =>
            /\ history' = history
            /\ pendingSecret' = pendingSecret
            /\ storage' = storage
            /\ inputError']_vars

\* the server answers the sync at k with a list
SyncAnswered(k) ==
    /\ k \in 1..Len(net) /\ Len(net') >= k
    /\ net[k].op = "POST" /\ net[k].state = "sent"
    /\ net'[k].state = "answered" /\ net'[k].response.ok

(* C17: after a logged-in owner explicitly removes an entry in the client,   *)
(* that entry is destroyed in the server store: no later reconcile by that   *)
(* owner returns it, unless the owner adds the same secret again (the        *)
(* reconcile carries it in its batch).                                       *)
C17_RemovedIsDestroyed ==
    [][\A k \in 1..MaxActs : SyncAnswered(k) =>
          \A s \in removed :
              (\A i \in 1..Len(net[k].body) : net[k].body[i].secret # s) =>
                  \A j \in 1..Len(net'[k].response.body) :
                      net'[k].response.body[j].secret # s]_vars

\* the page's list is the list of the response: the same entries and labels
\* in the same order, createdAt as milliseconds
SameList(list, body) ==
    /\ Len(list) = Len(body)
    /\ \A i \in 1..Len(body) :
          /\ list[i].id = body[i].id
          /\ list[i].secret = body[i].secret
          /\ list[i].label = body[i].label
          /\ list[i].createdAt = body[i].createdAt.iso

\* the sync at k comes to its end in this step
SyncEnds(k) ==
    /\ k \in 1..Len(net) /\ Len(net') >= k
    /\ net[k].op = "POST" /\ net[k].state \in {"sent", "answered"}
    /\ net'[k].state \in {"done", "failed"}

(* C18: after a sync whose response is successful, the client list equals    *)
(* the list the server returned (same entries, labels and order) and the     *)
(* local-only stored copy is removed; after a sync that fails (non-OK        *)
(* response or network error), the client list and the local store are       *)
(* unchanged.                                                                *)
C18_SyncOutcome ==
    [][\A k \in 1..MaxActs : SyncEnds(k) =>
          IF net'[k].state = "done" /\ net[k].response.ok
          THEN SameList(history', net[k].response.body) /\ storage' = NoStorage
          ELSE history' = history /\ storage' = storage]_vars

\* a sync that carried the page's entries has ended well: the page shows the
\* server's list, its first entry under the id of its row, and holds no local copy
C18_Witness ==
    \E k \in 1..Len(net) :
        /\ net[k].op = "POST" /\ net[k].state = "done"
        /\ Len(net[k].body) >= 1
        /\ net[k].response.ok
        /\ Len(net[k].response.body) >= 1
        /\ SameList(history, net[k].response.body)
        /\ history[1].id \in Ids
        /\ storage = NoStorage

\* the reconcile of handler r fails in this step at one of its upserts
FailsInTx(r) ==
    /\ req[r].op = "POST" /\ req[r].pc = "tx"
    /\ req'[r] = Idle
    /\ out'.op = "POST" /\ out'.status = 500

\* a reconcile fails in this step while it encrypts its items
FailsAtEncrypt ==
    /\ served' = served + 1
    /\ out'.op = "POST" /\ out'.status = 500

\* the ciphertexts of the batch handler r works on
BatchOf(r) ==
    {req[r].done[i].secret : i \in 1..Len(req[r].done)}
        \cup {req[r].todo[i].secret : i \in 1..Len(req[r].todo)}

(* C21: when a reconcile fails part-way (encryption of an item throws, or    *)
(* one upsert of the batch fails), the owner's stored set equals the set     *)
(* before the call: the failing step leaves the store as it is and no item   *)
(* of the failing batch is in it.                                            *)
C21_FailedBatchNotApplied ==
    [][/\ \A r \in Reqs : FailsInTx(r) =>
            /\ secrets' = secrets
            /\ \A row \in secrets' : row.secret \notin BatchOf(r)
       /\ FailsAtEncrypt => secrets' = secrets]_vars

\* a reconcile failed at its second upsert, after a sound first one; the
\* store holds the rows of another reconcile
C21_Witness ==
    /\ out.op = "POST" /\ out.status = 500 /\ out.thrown = "upsert"
    /\ out.after >= 1
    /\ secrets # {}

\* the smaller of two numbers
Least(a, b) == IF a < b THEN a ELSE b

(* C22: the rate limiter loses no update: when K requests of one identity    *)
(* reach the limiter within one window, in any order with the requests of    *)
(* another identity, the identity's count is min(K, 100), and each call      *)
(* raises the count it met by one if it is allowed and by nothing if it is   *)
(* denied, so that exactly min(K, 100) of the K are allowed.                 *)
C22_NoLostUpdate ==
    /\ \A ip \in DOMAIN window :
          now <= window[ip].resetAt =>
              /\ ip \in DOMAIN requests
              /\ requests[ip].count = Least(window[ip].n, MAX_REQUESTS)
    /\ (last.ip # "none" /\ last.prev > 0 /\ ~last.expired) =>
          /\ last.result.success <=> last.prev < MAX_REQUESTS
          /\ requests[last.ip].count = last.prev + (IF last.result.success THEN 1 ELSE 0)

\* 102 requests of one identity in a window, mixed with requests of the
\* other identity: the count stands at 100
C22_Witness ==
    /\ "ip1" \in DOMAIN window /\ "ip2" \in DOMAIN window
    /\ now <= window["ip1"].resetAt /\ now <= window["ip2"].resetAt
    /\ window["ip1"].n = MAX_REQUESTS + 2
    /\ window["ip2"].n = 2
    /\ requests["ip1"].count = MAX_REQUESTS
    /\ requests["ip2"].count = 2

(* C23: no rate-limiter record is retained indefinitely after its window     *)
(* expires: every record whose reset time has passed is eventually removed   *)
(* or replaced, also when its identity never sends another request.          *)
C23_ExpiredReclaimed ==
    \A ip \in IPs : Expired(requests, ip, now) ~> ~Expired(requests, ip, now)

(* C24: whenever the rate limiter denies a request, the reset time it        *)
(* reports is in the future: strictly later than the time of the denied      *)
(* request.                                                                  *)
C24_ResetInFuture ==
    (last.ip # "none" /\ ~last.result.success) => last.result.resetTime > now

(* C25: on every 1-second tick the displayed code of a card is the code of   *)
(* the counter window that contains the current time: once the time crosses  *)
(* a 30-second window boundary, the next tick replaces the displayed code by *)
(* the new window's code.                                                    *)
C25_CodeOfCurrentWindow ==
    (card # NoCard /\ "deps" \in DOMAIN card) =>
        card.result.code = HOTP(card.secret.text, now \div PERIOD_MS)

\* the issue request of handler r, which found no token for its entry, ends
\* in this step, and the entry is still there
IssueEnds(r) ==
    /\ req[r].op = "issue" /\ req[r].pc = "create"
    /\ req'[r] = Idle
    /\ FindSecret(secrets, req[r].id, req[r].user) # {}

(* C26: two concurrent issueOrGet requests for the same entry that has no    *)
(* token yet both succeed and both return the same token: each of them,      *)
(* when it ends, answers 200 with the token the entry then has.              *)
C26_ConcurrentIssue ==
    [][\A r \in Reqs : IssueEnds(r) =>
          /\ out'.status = 200
          /\ out'.token \in {sh.token : sh \in ShareOf(shares', req[r].id)}]_vars

\* the transaction of handler r commits in this step
Commits(r) ==
    /\ req[r].op = "POST" /\ req[r].pc = "tx"
    /\ req'[r].pc = "find"

\* the owner u holds an entry of this secret material among rows
Holds(rows, u, s) ==
    \E row \in OwnerRows(rows, u) : decrypt(row.secret) = s

(* C27: when reconcile meets a batch item whose (owner, secretMaterial)      *)
(* already exists, it changes only that entry's label: the entry's id,       *)
(* createdAt and secret material are unchanged and no entry is created;      *)
(* otherwise it creates one entry with the submitted label and createdAt.    *)
C27_UpsertFrame ==
    [][\A r \in Reqs : Commits(r) =>
          LET u == req[r].user
              batch == req[r].batch
              made == {row \in secrets' : \A old \in secrets : old.id # row.id} IN
          /\ \A old \in OwnerRows(secrets, u) :
                \E row \in secrets' :
                    /\ row.id = old.id /\ row.createdAt = old.createdAt
                    /\ row.secret = old.secret /\ row.userId = u
          /\ \A row \in made : ~Holds(secrets, u, decrypt(row.secret))
          /\ \A i \in 1..Len(batch) :
                ~Holds(secrets, u, batch[i].secret) =>
                    \E row \in made :
                        /\ row.userId = u
                        /\ decrypt(row.secret) = batch[i].secret
                        /\ row.createdAt = batch[i].createdAt
                        /\ \E j \in 1..Len(batch) :
                              batch[j].secret = batch[i].secret /\ row.label = batch[j].label]_vars

\* the tokens of the entries of owner b
TokensOf(shs, secs, b) ==
    {sh \in shs : \E row \in secs : row.id = sh.secretId /\ row.userId = b}

\* handler r, a reconcile or a delete, takes a step
Works(r) ==
    /\ req[r].op \in {"POST", "DELETE"}
    /\ req'[r] # req[r]

\* handler r answers with the list in this step
Lists(r) ==
    /\ req[r].op \in {"GET", "POST"} /\ req[r].pc = "find"
    /\ req'[r] = Idle

(* C28: reconciliations of different owners are independent: a reconcile or  *)
(* delete by owner A, in any interleaving with operations of owner B, leaves *)
(* every entry and token of B unchanged, and the list returned to A never    *)
(* contains an entry of B.                                                   *)
C28_OwnersIndependent ==
    [][\A r \in Reqs :
          /\ Works(r) =>
                \A b \in Users \ {req[r].user} :
                    /\ OwnerRows(secrets', b) = OwnerRows(secrets, b)
                    /\ TokensOf(shares', secrets', b) = TokensOf(shares, secrets, b)
          /\ Lists(r) =>
                \A i \in 1..Len(out'.body) :
                    \E row \in secrets :
                        row.id = out'.body[i].id /\ row.userId = req[r].user]_vars

\* a reconcile of u2 has created an entry and answered with it alone, while
\* u1 holds its entry and the token of it
C28_Witness ==
    /\ out.op = "POST" /\ out.status = 200 /\ out.user = "u2"
    /\ Len(out.body) = 1
    /\ OwnerRows(secrets, "u1") = SeedOne.secrets
    /\ OwnerRows(secrets, "u2") # {}
    /\ TokensOf(shares, secrets, "u1") # {}

(* C29: every SecretEntry has a non-empty label: after any sequence of       *)
(* reconciles no entry in the server store, and no entry of a list the       *)
(* server returns for the client to adopt, has an empty label.               *)
C29_LabelNonEmpty ==
    /\ \A row \in secrets : row.label # ""
    /\ (out.op = "POST" /\ out.status = 200) =>
          \A i \in 1..Len(out.body) : out.body[i].label # ""

(* C30: for every time value, the remaining seconds returned by generate for *)
(* a secret that decodes (the ceiling of the milliseconds left in the        *)
(* 30-second period, divided by 1000) equal 30 - (floor(now/1000) mod 30) as *)
(* used by the countdown display, and lie in 1..30.                          *)
C30_RemainingSeconds ==
    (card # NoCard /\ "deps" \in DOMAIN card /\ IsBase32(card.secret)) =>
        /\ card.result.timeLeft = TimeLeft(card.at)
        /\ card.result.timeLeft \in 1..30

\* after some ticks the card computed anew half a second before the end of
\* a period: one second is left
C30_Witness ==
    /\ card # NoCard /\ "deps" \in DOMAIN card
    /\ renders > 1
    /\ card.at = now
    /\ now % PERIOD_MS = PERIOD_MS - 500
    /\ card.result.timeLeft = 1

----------------------------------------------------------------------------
(* lib/crypto.ts in detail: the record encrypt writes, character by           *)
(* character, and what decrypt makes of a record.  A string is the sequence   *)
(* of its characters, a Buffer the sequence of its bytes.  AES-256-GCM is     *)
(* modelled by a keystream added to the plaintext bytes and a tag over IV and *)
(* ciphertext that differs whenever one of the two differs.                   *)

\* the key of getKeyBuffer(), as a number
KEY == 7
\* randomBytes(16)
IV_BYTES == 16
\* the length of cipher.getAuthTag()
TAG_BYTES == 16

HexDigits == <<"0", "1", "2", "3", "4", "5", "6", "7", "8", "9",
               "a", "b", "c", "d", "e", "f">>
UpperHex == <<"0", "1", "2", "3", "4", "5", "6", "7", "8", "9",
              "A", "B", "C", "D", "E", "F">>

\* the characters of the model's plaintexts and their UTF-8 bytes
Utf8 == [c \in {"J", "B", "2"} |-> IF c = "J" THEN 74 ELSE IF c = "B" THEN 66 ELSE 50]
Replacement == "<U+FFFD>"

\* Buffer.toString("hex")
toHex(bytes) ==
    [k \in 1..(2 * Len(bytes)) |->
        IF k % 2 = 1 THEN HexDigits[(bytes[(k + 1) \div 2] \div 16) + 1]
        ELSE HexDigits[(bytes[k \div 2] % 16) + 1]]

\* the value of a hex digit of either case, -1 for any other character
HexValue(ch) ==
    IF \E v \in 1..16 : HexDigits[v] = ch \/ UpperHex[v] = ch
    THEN (CHOOSE v \in 1..16 : HexDigits[v] = ch \/ UpperHex[v] = ch) - 1
    ELSE 0 - 1

RECURSIVE fromHex(_)
\* Buffer.from(chars, "hex"): pairs of hex digits, up to the first pair that is none
fromHex(chars) ==
    IF Len(chars) < 2 \/ HexValue(chars[1]) < 0 \/ HexValue(chars[2]) < 0 THEN <<>>
    ELSE <<HexValue(chars[1]) * 16 + HexValue(chars[2])>>
             \o fromHex(SubSeq(chars, 3, Len(chars)))

RECURSIVE split(_, _)
\* encryptedData.split(sep)
split(chars, sep) ==
    IF \A k \in 1..Len(chars) : chars[k] # sep THEN <<chars>>
    ELSE LET k == CHOOSE j \in 1..Len(chars) :
                      chars[j] = sep /\ \A i \in 1..(j - 1) : chars[i] # sep IN
         <<SubSeq(chars, 1, k - 1)>> \o split(SubSeq(chars, k + 1, Len(chars)), sep)

RECURSIVE Weighted(_, _)
\* a sum over the bytes in which every byte has an odd weight
Weighted(bytes, w) ==
    IF bytes = <<>> THEN 0 ELSE w * Head(bytes) + Weighted(Tail(bytes), w + 2)

\* the keystream byte at position k under the key and the IV
keystream(iv, k) == (KEY * 31 + Weighted(iv, 1) + 17 * k) % 256

\* cipher.update(text, "utf8") + cipher.final()
cipherUpdate(iv, text) ==
    [k \in 1..Len(text) |-> (Utf8[text[k]] + keystream(iv, k)) % 256]

\* decipher.update(encrypted) + decipher.final("utf8"): bytes that are no
\* character of the text decode to U+FFFD
decipherUpdate(iv, ct) ==
    [k \in 1..Len(ct) |->
        LET b == (ct[k] + 256 - keystream(iv, k)) % 256 IN
        IF \E c \in DOMAIN Utf8 : Utf8[c] = b
        THEN CHOOSE c \in DOMAIN Utf8 : Utf8[c] = b ELSE Replacement]

\* cipher.getAuthTag(): the GCM tag over the IV and the ciphertext
getAuthTag(iv, ct) ==
    [j \in 1..TAG_BYTES |->
        (KEY + 13 * j + 101 * Len(iv) + 103 * Len(ct)
             + Weighted(iv, 1) + Weighted(ct, 33)) % 256]

\* encrypt(text) with the IV that randomBytes(16) returned
encryptData(text, iv) ==
    LET ct == cipherUpdate(iv, text) IN
    toHex(iv) \o <<":">> \o toHex(getAuthTag(iv, ct)) \o <<":">> \o toHex(ct)

\* the tag lengths setAuthTag takes when the decipher was made without
\* authTagLength; a runtime that refuses the short ones is strict
TagLengths(strict) == IF strict THEN {TAG_BYTES} ELSE {4, 8, 12, 13, 14, 15, 16}

\* decrypt(encryptedData)
decryptData(encryptedData, strict) ==
    LET parts == split(encryptedData, ":") IN
    IF Len(parts) # 3 THEN [thrown |-> "Invalid encrypted data format"]
    ELSE LET iv == fromHex(parts[1])
             authTag == fromHex(parts[2])
             ct == fromHex(parts[3]) IN
         IF iv = <<>> THEN [thrown |-> "Invalid initialization vector"]
         ELSE IF Len(authTag) \notin TagLengths(strict)
         THEN [thrown |-> "Invalid authentication tag length"]
         ELSE IF authTag # SubSeq(getAuthTag(iv, ct), 1, Len(authTag))
         THEN [thrown |-> "Unsupported state or unable to authenticate data"]
         ELSE [text |-> decipherUpdate(iv, ct)]

\* the plaintexts and the IVs of the model
Plaintexts == {<<>>, <<"J">>, <<"2", "J", "B">>}
IVs == {[k \in 1..IV_BYTES |-> (k * 16 + 10) % 256],
        [k \in 1..IV_BYTES |-> (200 + 3 * k) % 256]}

\* what a changed character of a record may be
Alphabet ==
    {HexDigits[v] : v \in 1..16} \cup {UpperHex[v] : v \in 11..16} \cup {":", "g"}

\* POST stores the secret of one entry: encrypt, then the row
Save(text, iv) ==
    /\ secrets = {}
    /\ LET record == encryptData(text, iv) IN
       /\ secrets' = {[id |-> nextId, userId |-> "u1", secret |-> record,
                       label |-> "GitHub", createdAt |-> now]}
       /\ lastPost' = [user |-> "u1", batch |-> <<text>>, record |-> record]
    /\ nextId' = nextId + 1
    /\ UNCHANGED <<build, now, requests, limiterVars, shares, nextToken, req, out,
                   served, issued, dead, client>>

\* one character of the stored record is changed in the database
Tamper(pos, ch) ==
    /\ \E row \in secrets :
          /\ row.secret = lastPost.record
          /\ pos \in 1..Len(row.secret)
          /\ ch # row.secret[pos]
          /\ secrets' = {[row EXCEPT !.secret = [@ EXCEPT ![pos] = ch]]}
    /\ UNCHANGED <<build, now, requests, limiterVars, shares, nextId, nextToken, req,
                   out, served, ghosts, client>>

\* GET reads the row and decrypts its secret; an error of decrypt is not
\* caught.  One GET in a run.
Read(strict) ==
    /\ served < 1
    /\ served' = served + 1
    /\ \E row \in secrets :
          LET plain == decryptData(row.secret, strict) IN
          out' = IF "thrown" \in DOMAIN plain
                 THEN [op |-> "GET", status |-> 500, thrown |-> plain.thrown,
                       read |-> row.secret]
                 ELSE [op |-> "GET", status |-> 200, body |-> <<plain.text>>,
                       read |-> row.secret]
    /\ UNCHANGED <<build, now, requests, limiterVars, tables, req, ghosts, client>>

InitCrypto ==
    /\ build = "B"
    /\ now = 1
    /\ requests = EmptyMap
    /\ last = NoCall
    /\ window = EmptyMap
    /\ ServerInit
    /\ ClientInit

NextCrypto ==
    \/ \E text \in Plaintexts, iv \in IVs : Save(text, iv)
    \/ \E pos \in 1..(2 * IV_BYTES + 2 * TAG_BYTES + 2 * MaxText + 2), ch \in Alphabet :
          Tamper(pos, ch)
    \/ \E strict \in BOOLEAN : Read(strict)

SpecCrypto == InitCrypto /\ [][NextCrypto]_vars

----------------------------------------------------------------------------
\* the input of the latest submit is an otpauth:// URI that does not parse
Malformed(input) ==
    startsWith(trim(input), "otpauth://") /\ ~URIparse(trim(input)).ok

(* C31: parse never fails: for every input string it returns a secret and a  *)
(* label; for an input that starts with otpauth:// but is malformed it       *)
(* returns the whole trimmed input as the secret with an empty label, and    *)
(* validity is decided only by the later generate call.                      *)
C31_ParseNeverFails ==
    (card # NoCard /\ "input" \in DOMAIN card) =>
        /\ card.secret.fmt = "text"
        /\ ("error" \in DOMAIN card.result) <=> ~IsBase32(card.secret)
        /\ Malformed(card.input) =>
              /\ card.secret = Text(Join(trim(card.input)))
              /\ card.label = ""
              /\ card.result = InvalidSecret

\* a malformed URI between blanks was submitted: its text without the blanks
\* went to generate, which refused it, and the error flag is up
C31_Witness ==
    /\ card # NoCard /\ "input" \in DOMAIN card
    /\ Malformed(card.input)
    /\ card.input # trim(card.input)
    /\ card.secret = Text("otpauth://totp?")
    /\ card.result = InvalidSecret
    /\ inputError

(* C32: encryption round trip: for every plaintext P, decrypt(encrypt(P))    *)
(* equals P, and decrypt of a record in which any byte was changed fails     *)
(* with a decryption error instead of returning a plaintext.                 *)
C32_RoundTrip ==
    (out # NoOut /\ "read" \in DOMAIN out) =>
        IF out.read = lastPost.record
        THEN out.status = 200 /\ out.body = lastPost.batch
        ELSE out.status = 500

\* the page is logged in and every fetch it sent was a sync that ended with
\* the server's list
AllSynced ==
    /\ session # Anonymous
    /\ net # <<>>
    /\ \A k \in 1..Len(net) :
          net[k].op = "POST" /\ net[k].state = "done" /\ net[k].response.ok

(* C33: after all in-flight sync requests of a client have completed, with   *)
(* any order of arrival of their responses, the client list equals the       *)
(* server's current canonical list for that owner, and no entry the user     *)
(* added while a sync was in flight is missing from it.                      *)
C33_SyncsConverge ==
    AllSynced =>
        /\ \E list \in Sorted(OwnerRows(secrets, session)) :
              SameList(history, toJSON(Decrypted(list)))
        /\ \A k \in 1..Len(net) : \A i \in 1..Len(net[k].body) :
              net[k].body[i].secret \in SecretsOf(history)

\* the import comes to its end in this step: the file was read
ImportEnds == importing.phase = "reading" /\ importing' = NoImport

(* C34: import only adds entries: every entry that is in the client list     *)
(* when an import completes, including entries added between choosing the    *)
(* file and the end of the file read, is still in the list after the import. *)
C34_ImportOnlyAdds ==
    [][ImportEnds =>
          \A i \in 1..Len(history) : \E j \in 1..Len(history') :
              history'[j] = history[i]]_vars

(* C35: in guest mode, after any sequence of submit, label submit, cancel,   *)
(* import, remove and label edit actions, no two entries of the client list  *)
(* have the same secret string.                                              *)
C35_GuestSecretsUnique ==
    session = Anonymous =>
        \A i, j \in 1..Len(history) :
            history[i].secret = history[j].secret => i = j

\* the guest's latest action was the submit of a key that the list of the
\* earlier visits holds: the list has two entries and no form asks for a label
C35_Witness ==
    /\ session = Anonymous
    /\ card # NoCard /\ "input" \in DOMAIN card
    /\ card.n = renders
    /\ pendingSecret = NoPending
    /\ Len(history) >= 2
    /\ \E i \in 1..Len(history) :
          history[i].secret = card.secret /\ history[i].createdAt = 0

\* the page mounts with a session in this step: its login sync is sent
LoginSyncStep ==
    net' # net /\ Len(net') = 1 /\ net'[1].op = "POST"

\* every entry of the login's local store is a row of the owner, and the
\* local copy is gone
LoginSynced ==
    /\ \A i \in 1..Len(LoginStore) : \E row \in OwnerRows(secrets, "u1") :
          decrypt(row.secret) = LoginStore[i].secret
    /\ storage = NoStorage

(* C36: when a guest with locally stored entries logs in, the login-         *)
(* triggered sync sends a batch that contains every entry loaded from the    *)
(* local store, so that eventually each of them is in the owner's server     *)
(* store and the local-only copy is removed.                                 *)
C36_LoginSyncStores ==
    /\ [][(LoginSyncStep /\ storage.saved) =>
             \A i \in 1..Len(storage.list) : \E j \in 1..Len(net'[1].body) :
                 net'[1].body[j].secret = storage.list[i].secret]_vars
    /\ (storage.saved /\ net # <<>>) ~> LoginSynced

\* a handler of the user's actions ran in this step, or an import ended
UserOp == renders' = renders + 1 \/ ImportEnds

----------------------------------------------------------------------------
(* C38: after any sequence of share, revoke and sync operations by a single  *)
(* logged-in client, with no request in flight, an entry's client-side       *)
(* shareToken is non-null exactly when a live token exists for that entry on *)
(* the server, and then equals it.                                           *)

C38_ShareTokenFollowsServer ==
    (AtRest /\ session # Anonymous) =>
        \A i \in 1..Len(history) :
            LET live == LiveTokens(history[i].id, session) IN
            IF shareTokenOf(history[i]) = NoToken THEN live = {}
            ELSE live = {shareTokenOf(history[i])}

----------------------------------------------------------------------------
(* C39: a denied rate-limiter call changes nothing in the denied identity's  *)
(* record (count and reset time stay as they were, so denied requests never  *)
(* extend the window), and no call for identity A changes the count or reset *)
(* time of an unexpired record of another identity B.                        *)

\* the record of ip is in the Map after the step as it was before it
Untouched(ip) ==
    /\ ip \in DOMAIN requests /\ ip \in DOMAIN requests'
    /\ requests'[ip].count = requests[ip].count
    /\ requests'[ip].resetTime = requests[ip].resetTime

C39_LimiterFrame ==
    [][\A a \in IPs :
          Call(a) =>
             /\ ~last'.result.success => Untouched(a)
             /\ \A b \in IPs \ {a} :
                   (b \in DOMAIN requests /\ ~Expired(requests, b, now)) => Untouched(b)]_vars

\* the first identity has just been denied at the instant on which the
\* window of the second one, which has a record, ends
C39_Witness ==
    /\ last.ip = "ip1" /\ ~last.result.success
    /\ "ip2" \in DOMAIN requests /\ requests["ip2"].resetTime = now
    /\ requests["ip1"].count = MAX_REQUESTS

----------------------------------------------------------------------------
(* C40: an authenticated caller's share-issue, share-revoke, share-token-read *)
(* and secret-delete requests that name an entry id owned by a different      *)
(* owner never create, delete or return any token or entry of that other      *)
(* owner.                                                                     *)

\* the handler at r works on a request that names an entry of another owner
Foreign(r) ==
    /\ req[r].op \in {"issue", "revoke", "read", "DELETE"}
    /\ \E row \in secrets : row.id = req[r].id /\ row.userId # req[r].user

\* the SharedSecret rows of entries that u does not own
SharesOfOthers(shs, secs, u) ==
    {sh \in shs : \E row \in secs : row.id = sh.secretId /\ row.userId # u}

C40_ForeignIdTouchesNothing ==
    [][\A r \in Reqs :
          (Foreign(r) /\ req'[r] # req[r]) =>
             /\ {row \in secrets' : row.userId # req[r].user}
                   = {row \in secrets : row.userId # req[r].user}
             /\ SharesOfOthers(shares', secrets, req[r].user)
                   = SharesOfOthers(shares, secrets, req[r].user)
             /\ req'[r] = Idle
             /\ "body" \notin DOMAIN out'
             /\ "token" \in DOMAIN out' => out'.token = NoToken]_vars

\* a revoke was answered Not found while every entry of the store, all of
\* them u1's, is there with its token: the caller was another owner
C40_Witness ==
    /\ out.op = "revoke" /\ out.status = 404
    /\ secrets = Seed.secrets
    /\ \A row \in secrets : row.userId = "u1" /\ ShareOf(shares, row.id) # {}

====
